---- MODULE Spec2Model ----
(***************************************************************************)
(* Authentication-context builder of the Actual Budget MCP server.         *)
(*                                                                         *)
(* The model follows src/src/auth/auth.ts (first variant, lines 1-500:     *)
(* introspection or JWT validation), the configuration module and the      *)
(* server entry point (src/unnamed/part_000).                              *)
(*                                                                         *)
(* JavaScript values are represented as follows.                           *)
(*   - `undefined` for a string-valued setting is the string Undef.        *)
(*   - An object with optional properties (AuthOptions, the discovery      *)
(*     document, the AuthContext) is a record whose DOMAIN holds exactly   *)
(*     the properties that are present.                                    *)
(*   - A function that may throw returns [ok |-> TRUE, value |-> v] or     *)
(*     [ok |-> FALSE, error |-> [name |-> n, message |-> m]].              *)
(*   - The constants exported by the configuration module never change     *)
(*     after import; the model draws each group of them at the step that   *)
(*     first reads it and keeps it in `config`.                            *)
(***************************************************************************)
EXTENDS Integers, Sequences, FiniteSets, TLC

VARIABLES
    options,        \* AuthOptions handed to buildAuthContext (CLI flags)
    useSse,         \* --sse flag of the entry point
    MCP_AUTH_MODE,  \* config constant: fallback auth mode
    envPublicUrl,   \* process.env.MCP_PUBLIC_URL as read by buildAuthContext
    config,         \* the remaining config constants, once read
    pc,             \* position of main()
    resolvedMode,   \* buildAuthContext: the mode resolveAuthMode returned
    attempt,        \* discoverOAuthMetadata: round number (local)
    candidate,      \* discoverOAuthMetadata: index of the candidate URL (local)
    attempts,       \* discoverOAuthMetadata: failure log (local)
    inflight,       \* discovery HTTP requests issued and not yet answered
    requests,       \* discovery HTTP requests issued so far
    sleeps,         \* inter-round sleeps started so far
    discoveredMetadata, \* buildOAuthAuthContext: the document discovery returned (local)
    resolution,     \* the call of resolveValidationMethod, once made
    authContext,    \* the AuthContext returned by buildAuthContext
    error,          \* the error main() rejected with
    routes,         \* routes registered on the express app
    listening,      \* the HTTP listener is accepting connections
    exitCode,       \* process exit status, NotExited while running
    now,            \* Date.now() in milliseconds
    verification,   \* outcome of the latest verifyAccessToken call
    transport,      \* main(): the legacy SSE transport slot
    transports,     \* SSE transports created so far: the client each one streams to
    res,            \* what the route handler did with the latest request
    invocation      \* a call of a pure helper function, examined on its own

vars == <<options, useSse, MCP_AUTH_MODE, envPublicUrl, config, pc, resolvedMode, attempt,
          candidate, attempts, inflight, requests, sleeps, discoveredMetadata, resolution,
          authContext, error, routes, listening, exitCode, now, verification, transport,
          transports, res, invocation>>

-----------------------------------------------------------------------------
(* Bounds of the model *)

\* Largest value drawn for MCP_OAUTH_DISCOVERY_RETRIES.
MaxRetries == 2

\* Number of clock steps the model lets pass between verifications.
MaxTicks == 3

\* Largest number of items of an array-valued `aud`.
MaxAudienceItems == 2

-----------------------------------------------------------------------------
(* JavaScript values *)

Undef == "undefined"

NoError == [name |-> "none", message |-> ""]

Error(message) == [name |-> "Error", message |-> message]

TypeError(message) == [name |-> "TypeError", message |-> message]

InvalidTokenError(message) == [name |-> "InvalidTokenError", message |-> message]

Ok(v) == [ok |-> TRUE, value |-> v]

Throw(e) == [ok |-> FALSE, error |-> e]

\* options.f used as a condition: an absent property is undefined, hence falsy.
Truthy(o, f) == f \in DOMAIN o /\ o[f]

\* o.f for a string-valued property.
Prop(o, f) == IF f \in DOMAIN o THEN o[f] ELSE Undef

\* a ?? b
Coalesce(a, b) == IF a # Undef THEN a ELSE b

\* A value of type `unknown` (a field of a JSON body, a token claim) carries
\* its JavaScript type.
JsUndefined == [type |-> "undefined"]

JsString(s) == [type |-> "string", string |-> s]

JsNumber(n) == [type |-> "number", number |-> n]

JsBoolean(b) == [type |-> "boolean", boolean |-> b]

JsArray(items) == [type |-> "array", items |-> items]

JsNull == [type |-> "null"]

\* a ?? b on values of type unknown: b when a is null or undefined.
NullishCoalesce(a, b) == IF a.type \in {"undefined", "null"} THEN b ELSE a

\* String.prototype.toLowerCase on the strings the model draws.
toLowerCase(s) ==
    CASE s = "OAuth" -> "oauth"
      [] s = "Bearer" -> "bearer"
      [] s = "JWT" -> "jwt"
      [] s = "Auto" -> "auto"
      [] OTHER -> s

\* A URL object: origin (scheme and authority), the path segments, whether
\* the path ends with a slash, the query and the fragment.
Url(origin, path, dir, search, hash) ==
    [origin |-> origin, path |-> path, dir |-> dir, search |-> search, hash |-> hash]

Keycloak == "http://keycloak:8080"

Public == "https://auth.example.com"

Realm == <<"realms", "test">>

Oidc == Realm \o <<"protocol", "openid-connect">>

\* The WHATWG parse of every absolute URL string of the model, as pairs of
\* the string (its href) and the URL object.
UrlTable ==
    { <<"http://localhost:3000/mcp", Url("http://localhost:3000", <<"mcp">>, FALSE, "", "")>>,
      <<"https://mcp.example.com/mcp", Url("https://mcp.example.com", <<"mcp">>, FALSE, "", "")>>,
      <<"http://keycloak:8080/realms/test", Url(Keycloak, Realm, FALSE, "", "")>>,
      <<"http://keycloak:8080/realms/test/", Url(Keycloak, Realm, TRUE, "", "")>>,
      <<"https://auth.example.com/realms/test", Url(Public, Realm, FALSE, "", "")>>,
      <<"https://auth.example.com/realms/test/", Url(Public, Realm, TRUE, "", "")>>,
      <<"http://keycloak:8080/realms/test/protocol/openid-connect/auth",
        Url(Keycloak, Oidc \o <<"auth">>, FALSE, "", "")>>,
      <<"https://auth.example.com/realms/test/protocol/openid-connect/auth",
        Url(Public, Oidc \o <<"auth">>, FALSE, "", "")>>,
      <<"http://keycloak:8080/realms/test/protocol/openid-connect/token",
        Url(Keycloak, Oidc \o <<"token">>, FALSE, "", "")>>,
      <<"https://auth.example.com/realms/test/protocol/openid-connect/token",
        Url(Public, Oidc \o <<"token">>, FALSE, "", "")>>,
      <<"http://keycloak:8080/realms/test/protocol/openid-connect/token/introspect",
        Url(Keycloak, Oidc \o <<"token", "introspect">>, FALSE, "", "")>>,
      <<"https://auth.example.com/realms/test/protocol/openid-connect/token/introspect",
        Url(Public, Oidc \o <<"token", "introspect">>, FALSE, "", "")>>,
      <<"http://keycloak:8080/realms/test/protocol/openid-connect/certs",
        Url(Keycloak, Oidc \o <<"certs">>, FALSE, "", "")>>,
      <<"https://auth.example.com/realms/test/protocol/openid-connect/certs",
        Url(Public, Oidc \o <<"certs">>, FALSE, "", "")>>,
      <<"http://keycloak:8080/realms/test/protocol/openid-connect/userinfo?schema=openid#claims",
        Url(Keycloak, Oidc \o <<"userinfo">>, FALSE, "?schema=openid", "#claims")>>,
      <<"https://auth.example.com/realms/test/protocol/openid-connect/userinfo?schema=openid#claims",
        Url(Public, Oidc \o <<"userinfo">>, FALSE, "?schema=openid", "#claims")>>,
      <<"https://auth.example.com/realms/test/protocol/openid-connect/userinfo?schema=openid",
        Url(Public, Oidc \o <<"userinfo">>, FALSE, "?schema=openid", "")>>,
      <<"http://keycloak:8080//evil.example/certs",
        Url(Keycloak, <<"", "evil.example", "certs">>, FALSE, "", "")>>,
      <<"https://evil.example/certs", Url("https://evil.example", <<"certs">>, FALSE, "", "")>>,
      <<"http://evil.example/certs", Url("http://evil.example", <<"certs">>, FALSE, "", "")>>,
      <<"https://auth.example.com/introspect", Url(Public, <<"introspect">>, FALSE, "", "")>>,
      <<"https://auth.example.com/certs", Url(Public, <<"certs">>, FALSE, "", "")>> }

\* The strings `new URL(s)` accepts; it throws TypeError on every other one
\* ("", "not a url", a relative reference such as "/certs").
AbsoluteUrls == { e[1] : e \in UrlTable }

\* new URL(s)
newURL(s) ==
    IF s \in AbsoluteUrls
    THEN Ok((CHOOSE e \in UrlTable : e[1] = s)[2])
    ELSE Throw(TypeError("Invalid URL"))

\* url.href
href(url) == (CHOOSE e \in UrlTable : e[2] = url)[1]

\* url.protocol
protocol(url) ==
    IF url.origin \in {"http://localhost:3000", "http://keycloak:8080", "http://evil.example"}
    THEN "http:" ELSE "https:"

\* new URL(url.pathname, base): the pathname is resolved as a relative
\* reference. A pathname that starts with "//" (an empty first segment) is a
\* network-path reference: it keeps only the scheme of the base and takes
\* its authority from the segment after the two slashes. Any other pathname
\* replaces the path of the base.
newURLFromPathname(url, base) ==
    IF Len(url.path) >= 2 /\ url.path[1] = ""
    THEN Url(IF protocol(base) = "http:" THEN "http://" \o url.path[2] ELSE "https://" \o url.path[2],
             SubSeq(url.path, 3, Len(url.path)), url.dir, "", "")
    ELSE Url(base.origin, url.path, url.dir, "", "")

\* url.href.endsWith('/')
hrefEndsWithSlash(url) == url.hash = "" /\ url.search = "" /\ (url.dir \/ url.path = <<>>)

ensureTrailingSlash(issuer) ==
    IF hrefEndsWithSlash(issuer) THEN issuer
    ELSE [issuer EXCEPT !.dir = TRUE]

\* A mutant of buildWellKnownCandidates: the documents at the origin root
\* are requested before the two under the issuer path.
buildWellKnownCandidatesRootFirst(issuer) ==
    LET withSlash == IF issuer.hash = "" /\ issuer.search = "" /\ (issuer.dir \/ issuer.path = <<>>)
                     THEN issuer ELSE [issuer EXCEPT !.dir = TRUE]
        scoped(name) == Url(withSlash.origin, withSlash.path \o <<".well-known", name>>, FALSE, "", "")
        root(name) == Url(issuer.origin, <<".well-known", name>>, FALSE, "", "")
    IN  << root("openid-configuration"), root("oauth-authorization-server"),
           scoped("openid-configuration"), scoped("oauth-authorization-server") >>

\* The discovery candidates of an issuer, in request order: the two
\* well-known documents under the issuer path, then the two at the origin root.
buildWellKnownCandidates(issuer) ==
    LET issuerWithSlash == ensureTrailingSlash(issuer)
        scoped(name) == Url(issuerWithSlash.origin, issuerWithSlash.path \o <<".well-known", name>>, FALSE, "", "")
        root(name) == Url(issuer.origin, <<".well-known", name>>, FALSE, "", "")
    IN  << scoped("openid-configuration"), scoped("oauth-authorization-server"),
           root("openid-configuration"), root("oauth-authorization-server") >>

-----------------------------------------------------------------------------
(* Configuration module *)

\* parseStringEnv: the empty string counts as unset.
parseStringEnv(value) == IF value # Undef /\ value # "" THEN value ELSE Undef

\* MCP_AUTH_MODE: (process.env.MCP_AUTH_MODE ?? 'none').toLowerCase(), cast
\* to AuthMode without any check.
parseAuthMode(value) == toLowerCase(Coalesce(value, "none"))

\* parseValidationMethod: anything but the three known names is 'auto'.
parseValidationMethod(value) ==
    LET normalized == toLowerCase(Coalesce(value, "auto"))
    IN  IF normalized \in {"introspection", "jwt", "auto"} THEN normalized ELSE "auto"

\* MCP_PUBLIC_URL: the environment value unless unset or empty, else the
\* localhost URL on MCP_PORT.
configPublicUrl(value) ==
    IF value # Undef /\ value # "" THEN value ELSE "http://localhost:3000/mcp"

\* MCP_OAUTH_INTERNAL_ISSUER_URL / MCP_OAUTH_PUBLIC_ISSUER_URL:
\* parseStringEnv(specific ?? MCP_OAUTH_ISSUER_URL).
configIssuer(specific, generic) == parseStringEnv(Coalesce(specific, parseStringEnv(generic)))

\* Raw environment values the model draws.
RawAuthModes == {Undef, "none", "bearer", "oauth", "OAuth", "basic"}

RawBearerTokens == {Undef, "", "abc123"}

RawPublicUrls == {Undef, "", "https://mcp.example.com/mcp"}

RawIssuers == {Undef, "", "http://keycloak:8080/realms/test", "not a url"}

RawClientIds == {Undef, "", "test-client"}

RawClientSecrets == {Undef, "test-secret"}

RawIntrospectionUrls == {Undef, "https://auth.example.com/introspect"}

RawJwksUrls == {Undef, "https://auth.example.com/certs"}

RawExpectedIssuers == {Undef, "", "https://issuer.example.com/realms/test"}

RawValidationMethods == {Undef, "introspection", "JWT", "userinfo"}

RetryCounts == (-1)..MaxRetries

-----------------------------------------------------------------------------
(* Mode Resolver *)

\* The shapes of AuthOptions: each flag true, false or absent.
AuthOptions ==
    { [enableOauth |-> o, enableBearer |-> b] : o \in BOOLEAN, b \in BOOLEAN }
    \cup { [enableOauth |-> o] : o \in BOOLEAN }
    \cup { [enableBearer |-> b] : b \in BOOLEAN }
    \cup { [port |-> 3000] }

\* A mutant of resolveAuthMode: the bearer flag is tested first.
resolveAuthModeBearerFirst(opts, fallback) ==
    IF Truthy(opts, "enableBearer") THEN "bearer"
    ELSE IF Truthy(opts, "enableOauth") THEN "oauth"
    ELSE fallback

\* A mutant of resolveAuthMode: a fallback other than none overrides the
\* bearer flag.
resolveAuthModeEnvFirst(opts, fallback) ==
    IF Truthy(opts, "enableOauth") THEN "oauth"
    ELSE IF fallback # "none" THEN fallback
    ELSE IF Truthy(opts, "enableBearer") THEN "bearer"
    ELSE fallback

resolveAuthMode(opts, fallback) ==
    IF Truthy(opts, "enableOauth") THEN "oauth"
    ELSE IF Truthy(opts, "enableBearer") THEN "bearer"
    ELSE fallback

-----------------------------------------------------------------------------
(* Static-bearer strategy *)

NullMiddleware == [kind |-> "null"]

\* requireBearerAuth({verifier, requiredScopes: []}) around the static
\* verifier, which closes over `token`.
BearerMiddleware(token) == [kind |-> "bearer", token |-> token]

\* A mutant of bearerVerifyAccessToken: a falsy (empty) token is let through.
bearerVerifyAccessTokenLoose(token, accessToken, dateNow) ==
    IF accessToken # "" /\ accessToken # token
    THEN Throw(InvalidTokenError("Invalid token"))
    ELSE Ok([token |-> accessToken,
             clientId |-> "local-user",
             scopes |-> <<"mcp:tools">>,
             expiresAt |-> (dateNow \div 1000) + 24 * 60 * 60])

\* verifyAccessToken of the static verifier.
bearerVerifyAccessToken(token, accessToken, dateNow) ==
    IF accessToken # token
    THEN Throw(InvalidTokenError("Invalid token"))
    ELSE Ok([token |-> accessToken,
             clientId |-> "local-user",
             scopes |-> <<"mcp:tools">>,
             expiresAt |-> (dateNow \div 1000) + 24 * 60 * 60])

buildBearerAuthContext(token) ==
    IF token = Undef \/ token = ""
    THEN Throw(Error("MCP_BEARER_TOKEN (or BEARER_TOKEN) is required when auth mode is bearer."))
    ELSE Ok([mode |-> "bearer", middleware |-> BearerMiddleware(token)])

-----------------------------------------------------------------------------
(* Validation Method Resolver *)

AutoFailedWithCredentials ==
    Error("OAuth auto-detection failed: client credentials provided but no introspection endpoint available. Set MCP_OAUTH_INTROSPECTION_URL or use MCP_OAUTH_VALIDATION_METHOD=jwt with JWKS.")

AutoFailedWithoutCredentials ==
    Error("OAuth auto-detection failed: no client credentials and no JWKS URI available. Configure either client credentials for introspection or ensure jwks_uri is in issuer metadata.")

\* The branches of resolveValidationMethod for a forced method.
forcedValidationMethod(method, hasClientCredentials, hasIntrospectionEndpoint, hasJwksUri) ==
    IF method = "introspection" THEN
        IF ~hasClientCredentials THEN
            Throw(Error("MCP_OAUTH_CLIENT_ID and MCP_OAUTH_CLIENT_SECRET are required for introspection validation."))
        ELSE IF ~hasIntrospectionEndpoint THEN
            Throw(Error("Introspection endpoint not available. Set MCP_OAUTH_INTROSPECTION_URL or use jwt validation."))
        ELSE Ok("introspection")
    ELSE
        IF ~hasJwksUri THEN
            Throw(Error("JWKS URI not available. Set MCP_OAUTH_JWKS_URL or ensure issuer metadata includes jwks_uri."))
        ELSE Ok("jwt")

\* A mutant of resolveValidationMethod: auto prefers JWT when a JWKS URI exists.
resolveValidationMethodJwtFirst(method, hasClientCredentials, hasIntrospectionEndpoint, hasJwksUri) ==
    IF method \in {"introspection", "jwt"}
    THEN forcedValidationMethod(method, hasClientCredentials, hasIntrospectionEndpoint, hasJwksUri)
    ELSE IF hasJwksUri THEN Ok("jwt")
    ELSE IF hasClientCredentials /\ hasIntrospectionEndpoint THEN Ok("introspection")
    ELSE IF hasClientCredentials THEN Throw(AutoFailedWithCredentials)
    ELSE Throw(AutoFailedWithoutCredentials)

\* A mutant of resolveValidationMethod: auto picks introspection on client
\* credentials alone.
resolveValidationMethodCredentialsOnly(method, hasClientCredentials, hasIntrospectionEndpoint, hasJwksUri) ==
    IF method \in {"introspection", "jwt"}
    THEN forcedValidationMethod(method, hasClientCredentials, hasIntrospectionEndpoint, hasJwksUri)
    ELSE IF hasClientCredentials THEN Ok("introspection")
    ELSE IF hasJwksUri THEN Ok("jwt")
    ELSE Throw(AutoFailedWithoutCredentials)

\* A mutant of resolveValidationMethod: auto fails with one message.
resolveValidationMethodOneMessage(method, hasClientCredentials, hasIntrospectionEndpoint, hasJwksUri) ==
    IF method \in {"introspection", "jwt"}
    THEN forcedValidationMethod(method, hasClientCredentials, hasIntrospectionEndpoint, hasJwksUri)
    ELSE IF hasClientCredentials /\ hasIntrospectionEndpoint THEN Ok("introspection")
    ELSE IF hasJwksUri THEN Ok("jwt")
    ELSE Throw(AutoFailedWithoutCredentials)

\* A mutant of resolveValidationMethod: forced introspection falls back to
\* JWT when a JWKS URI is available.
resolveValidationMethodIntrospectionFallsBack(method, hasClientCredentials, hasIntrospectionEndpoint, hasJwksUri) ==
    IF method = "introspection" /\ ~(hasClientCredentials /\ hasIntrospectionEndpoint) /\ hasJwksUri
    THEN Ok("jwt")
    ELSE IF method \in {"introspection", "jwt"}
    THEN forcedValidationMethod(method, hasClientCredentials, hasIntrospectionEndpoint, hasJwksUri)
    ELSE IF hasClientCredentials /\ hasIntrospectionEndpoint THEN Ok("introspection")
    ELSE IF hasJwksUri THEN Ok("jwt")
    ELSE IF hasClientCredentials THEN Throw(AutoFailedWithCredentials)
    ELSE Throw(AutoFailedWithoutCredentials)

\* A mutant of resolveValidationMethod: forced JWT falls back to
\* introspection when no JWKS URI is available.
resolveValidationMethodJwtFallsBack(method, hasClientCredentials, hasIntrospectionEndpoint, hasJwksUri) ==
    IF method = "jwt" /\ ~hasJwksUri /\ hasClientCredentials /\ hasIntrospectionEndpoint
    THEN Ok("introspection")
    ELSE IF method \in {"introspection", "jwt"}
    THEN forcedValidationMethod(method, hasClientCredentials, hasIntrospectionEndpoint, hasJwksUri)
    ELSE IF hasClientCredentials /\ hasIntrospectionEndpoint THEN Ok("introspection")
    ELSE IF hasJwksUri THEN Ok("jwt")
    ELSE IF hasClientCredentials THEN Throw(AutoFailedWithCredentials)
    ELSE Throw(AutoFailedWithoutCredentials)

resolveValidationMethod(method, hasClientCredentials, hasIntrospectionEndpoint, hasJwksUri) ==
    IF method = "introspection" THEN
        IF ~hasClientCredentials THEN
            Throw(Error("MCP_OAUTH_CLIENT_ID and MCP_OAUTH_CLIENT_SECRET are required for introspection validation."))
        ELSE IF ~hasIntrospectionEndpoint THEN
            Throw(Error("Introspection endpoint not available. Set MCP_OAUTH_INTROSPECTION_URL or use jwt validation."))
        ELSE Ok("introspection")
    ELSE IF method = "jwt" THEN
        IF ~hasJwksUri THEN
            Throw(Error("JWKS URI not available. Set MCP_OAUTH_JWKS_URL or ensure issuer metadata includes jwks_uri."))
        ELSE Ok("jwt")
    ELSE IF hasClientCredentials /\ hasIntrospectionEndpoint THEN Ok("introspection")
    ELSE IF hasJwksUri THEN Ok("jwt")
    ELSE IF hasClientCredentials THEN Throw(AutoFailedWithCredentials)
    ELSE Throw(AutoFailedWithoutCredentials)

-----------------------------------------------------------------------------
(* Audience matcher *)

\* A mutant of audienceMatches: only the first item of an array is compared.
audienceMatchesFirstItemOnly(aud, expected) ==
    IF expected = Undef \/ expected = "" THEN TRUE
    ELSE IF aud.type = "string" THEN aud.string = expected
    ELSE IF aud.type = "array"
         THEN Len(aud.items) > 0 /\ aud.items[1] = JsString(expected)
         ELSE FALSE

RECURSIVE audienceMatches(_, _)
audienceMatches(aud, expected) ==
    IF expected = Undef \/ expected = "" THEN TRUE
    ELSE IF aud.type = "string" THEN aud.string = expected
    ELSE IF aud.type = "array"
         THEN \E i \in 1..Len(aud.items) : audienceMatches(aud.items[i], expected)
         ELSE FALSE

\* The values of `aud` the model draws: absent, strings, a number, and
\* arrays (one of them nested) of up to MaxAudienceItems items.
AudienceItems == { JsString("mcp"), JsString("other"), JsNumber(1), JsArray(<<JsString("mcp")>>) }

Audiences ==
    { JsUndefined, JsString("mcp"), JsString("other"), JsString(""), JsNumber(1), JsBoolean(TRUE) }
    \cup { JsArray(items) : items \in UNION { [1..n -> AudienceItems] : n \in 0..MaxAudienceItems } }

\* The expected audience: unset, empty, or a name.
ExpectedAudiences == {Undef, "", "mcp"}

-----------------------------------------------------------------------------
(* Issuer Rewriter *)

EndpointFields ==
    { "authorization_endpoint", "token_endpoint", "introspection_endpoint",
      "userinfo_endpoint", "revocation_endpoint", "end_session_endpoint", "jwks_uri" }

\* remap: undefined for an absent or empty value, else the pathname of the
\* value resolved against issuerUrl, with the query and the fragment of the
\* value; new URL(value) throws on a value that is no absolute URL.
remap(value, issuerUrl) ==
    IF value = Undef \/ value = "" THEN Ok(Undef)
    ELSE LET original == newURL(value)
             rewritten == newURLFromPathname(original.value, issuerUrl)
         IN  IF ~original.ok THEN original
             ELSE Ok(href([rewritten EXCEPT !.search = original.value.search,
                                            !.hash = original.value.hash]))

rewriteOAuthMetadataIssuer(metadata, publicIssuer) ==
    IF publicIssuer = Undef \/ publicIssuer = "" THEN metadata
    ELSE LET parsed == newURL(publicIssuer)
             issuerUrl == ensureTrailingSlash(parsed.value)
             present == EndpointFields \cap DOMAIN metadata
         IN  IF ~parsed.ok \/ \E f \in present : ~remap(metadata[f], issuerUrl).ok
             THEN metadata     \* the catch block: the discovered metadata as is
             ELSE [f \in DOMAIN metadata \cup {"issuer"} |->
                     IF f = "issuer" THEN href(issuerUrl)
                     ELSE IF f \in present
                          THEN Coalesce(remap(metadata[f], issuerUrl).value, metadata[f])
                          ELSE metadata[f]]

-----------------------------------------------------------------------------
(* OAuth strategy: construction *)

\* The discovery documents the provider may answer with.
DiscoveryDocuments ==
    LET base == [issuer |-> "http://keycloak:8080/realms/test",
                 authorization_endpoint |-> "http://keycloak:8080/realms/test/protocol/openid-connect/auth",
                 token_endpoint |-> "http://keycloak:8080/realms/test/protocol/openid-connect/token",
                 userinfo_endpoint |-> "http://keycloak:8080/realms/test/protocol/openid-connect/userinfo?schema=openid#claims"]
        introspection == "http://keycloak:8080/realms/test/protocol/openid-connect/token/introspect"
        With(doc, f, v) == [g \in DOMAIN doc \cup {f} |-> IF g = f THEN v ELSE doc[g]]
        withIntrospection == {base, With(base, "introspection_endpoint", introspection)}
    IN  withIntrospection
        \cup { With(doc, "jwks_uri", j) :
                 doc \in withIntrospection,
                 j \in {"", "/certs", "http://keycloak:8080/realms/test/protocol/openid-connect/certs",
                        "http://keycloak:8080//evil.example/certs"} }
        \cup LET keys == With(base, "jwks_uri", "http://keycloak:8080/realms/test/protocol/openid-connect/certs")
             IN  { With(keys, "issuer", "https://auth.example.com/realms/test"),
                   [f \in DOMAIN keys \ {"issuer"} |-> keys[f]] }

NoResolution == [called |-> FALSE]

NoMetadata == [pending |-> TRUE]

\* requireBearerAuth around the verifier of buildJwtVerifier.
JwtMiddleware(jwksUrl, expectedIssuer, expectedAudience) ==
    [kind |-> "jwt", jwksUrl |-> jwksUrl, expectedIssuer |-> expectedIssuer,
     expectedAudience |-> expectedAudience]

\* requireBearerAuth around the verifier of buildIntrospectionVerifier.
IntrospectionMiddleware(introspectionEndpoint, clientId, clientSecret, mcpPublicUrl) ==
    [kind |-> "introspection", introspectionEndpoint |-> introspectionEndpoint,
     clientId |-> clientId, clientSecret |-> clientSecret, resource |-> href(mcpPublicUrl)]

\* A mutant of introspectionEndpointOf: the override is ignored.
introspectionEndpointDiscoveredOnly(cfg, metadata) == Prop(metadata, "introspection_endpoint")

\* A mutant of introspectionEndpointOf: without an override the endpoint is
\* taken from the rewritten metadata.
introspectionEndpointPublished(cfg, metadata) ==
    Coalesce(cfg.MCP_OAUTH_INTROSPECTION_URL,
             Prop(rewriteOAuthMetadataIssuer(metadata, cfg.MCP_OAUTH_PUBLIC_ISSUER_URL),
                  "introspection_endpoint"))

\* introspectionEndpoint: the override, else the discovered endpoint.
introspectionEndpointOf(cfg, metadata) ==
    Coalesce(cfg.MCP_OAUTH_INTROSPECTION_URL, Prop(metadata, "introspection_endpoint"))

\* A mutant of jwksUriOf: the override is ignored.
jwksUriDiscoveredOnly(cfg, metadata) == Prop(metadata, "jwks_uri")

\* jwksUri: the override, else the discovered URI.
jwksUriOf(cfg, metadata) == Coalesce(cfg.MCP_OAUTH_JWKS_URL, Prop(metadata, "jwks_uri"))

\* hasClientCredentials: both the client id and the client secret are set.
hasClientCredentialsOf(cfg) ==
    /\ cfg.MCP_OAUTH_CLIENT_ID # Undef /\ cfg.MCP_OAUTH_CLIENT_ID # ""
    /\ cfg.MCP_OAUTH_CLIENT_SECRET # Undef /\ cfg.MCP_OAUTH_CLIENT_SECRET # ""

\* buildOAuthAuthContext from the point where discovery has returned:
\* the call of resolveValidationMethod and the context or the error.
finishOAuthAuthContext(cfg, metadata, mcpPublicUrl) ==
    LET oauthMetadata == rewriteOAuthMetadataIssuer(metadata, cfg.MCP_OAUTH_PUBLIC_ISSUER_URL)
        introspectionEndpoint == introspectionEndpointOf(cfg, metadata)
        jwksUri == jwksUriOf(cfg, metadata)
        hasClientCredentials == hasClientCredentialsOf(cfg)
        hasIntrospectionEndpoint == introspectionEndpoint # Undef /\ introspectionEndpoint # ""
        hasJwksUri == jwksUri # Undef /\ jwksUri # ""
        validationMethod ==
            resolveValidationMethod(cfg.MCP_OAUTH_VALIDATION_METHOD, hasClientCredentials,
                                    hasIntrospectionEndpoint, hasJwksUri)
        call == [called |-> TRUE,
                 method |-> cfg.MCP_OAUTH_VALIDATION_METHOD,
                 hasClientCredentials |-> hasClientCredentials,
                 hasIntrospectionEndpoint |-> hasIntrospectionEndpoint,
                 hasJwksUri |-> hasJwksUri,
                 result |-> validationMethod]
        jwksUrl == newURL(jwksUri)
        expectedIssuer ==
            Coalesce(cfg.MCP_OAUTH_EXPECTED_ISSUER,
                     Coalesce(Prop(metadata, "issuer"), cfg.MCP_OAUTH_INTERNAL_ISSUER_URL))
        context(middleware) ==
            [mode |-> "oauth", middleware |-> middleware, oauthMetadata |-> oauthMetadata,
             validationMethod |-> validationMethod.value]
    IN  [resolution |-> call,
         result |->
            IF ~validationMethod.ok THEN validationMethod
            ELSE IF validationMethod.value = "jwt" THEN
                IF ~jwksUrl.ok THEN jwksUrl
                ELSE Ok(context(JwtMiddleware(jwksUrl.value, expectedIssuer, cfg.MCP_OAUTH_AUDIENCE)))
            ELSE Ok(context(IntrospectionMiddleware(introspectionEndpoint, cfg.MCP_OAUTH_CLIENT_ID,
                                                    cfg.MCP_OAUTH_CLIENT_SECRET, mcpPublicUrl)))]

\* A mutant of DiscoveryError: only the attempts of the first round are listed.
DiscoveryErrorFirstRound(issuer, tried) ==
    LET n == Len(buildWellKnownCandidates(issuer))
    IN  [name |-> "Error", message |-> "Unable to load OAuth metadata from issuer",
         issuer |-> href(issuer), tried |-> IF Len(tried) > n THEN SubSeq(tried, 1, n) ELSE tried]

\* The error discoverOAuthMetadata throws after its last round.
DiscoveryError(issuer, tried) ==
    [name |-> "Error", message |-> "Unable to load OAuth metadata from issuer",
     issuer |-> href(issuer), tried |-> tried]

\* new URL(process.env.MCP_PUBLIC_URL ?? MCP_PUBLIC_URL ?? localhost)
mcpPublicUrlOf(envUrl) == newURL(Coalesce(envUrl, configPublicUrl(envUrl)))

\* A mutant of buildAuthContext: discovery starts whatever the retry count
\* is, as if the round loop tested its condition at the end.
buildAuthContextAlwaysDiscovers(opts, fallback, envUrl, cfg) ==
    LET mode == resolveAuthMode(opts, fallback)
        mcpPublicUrl == mcpPublicUrlOf(envUrl)
        internalIssuerString == cfg.MCP_OAUTH_INTERNAL_ISSUER_URL
        issuer == newURL(internalIssuerString)
    IN  IF ~mcpPublicUrl.ok THEN mcpPublicUrl
        ELSE IF mode = "none" THEN Ok([mode |-> mode, middleware |-> NullMiddleware])
        ELSE IF mode = "bearer" THEN buildBearerAuthContext(cfg.MCP_BEARER_TOKEN)
        ELSE IF mode = "oauth" THEN
            IF internalIssuerString = Undef \/ internalIssuerString = ""
            THEN Throw(Error("MCP_OAUTH_INTERNAL_ISSUER_URL (or MCP_OAUTH_ISSUER_URL) is required when auth mode is oauth."))
            ELSE IF ~issuer.ok THEN issuer
            ELSE [ok |-> TRUE, discover |-> issuer.value]
        ELSE Ok([mode |-> "none", middleware |-> NullMiddleware])

\* buildAuthContext up to its first await: the context, the error, or the
\* issuer whose discovery it starts.
buildAuthContext(opts, fallback, envUrl, cfg) ==
    LET mode == resolveAuthMode(opts, fallback)
        mcpPublicUrl == mcpPublicUrlOf(envUrl)
        internalIssuerString == cfg.MCP_OAUTH_INTERNAL_ISSUER_URL
        issuer == newURL(internalIssuerString)
    IN  IF ~mcpPublicUrl.ok THEN mcpPublicUrl
        ELSE IF mode = "none" THEN Ok([mode |-> mode, middleware |-> NullMiddleware])
        ELSE IF mode = "bearer" THEN buildBearerAuthContext(cfg.MCP_BEARER_TOKEN)
        ELSE IF mode = "oauth" THEN
            IF internalIssuerString = Undef \/ internalIssuerString = ""
            THEN Throw(Error("MCP_OAUTH_INTERNAL_ISSUER_URL (or MCP_OAUTH_ISSUER_URL) is required when auth mode is oauth."))
            ELSE IF ~issuer.ok THEN issuer
            ELSE IF ~(1 <= cfg.MCP_OAUTH_DISCOVERY_RETRIES)
                 THEN Throw(DiscoveryError(issuer.value, <<>>))
                 ELSE [ok |-> TRUE, discover |-> issuer.value]
        ELSE Ok([mode |-> "none", middleware |-> NullMiddleware])

-----------------------------------------------------------------------------
(* OAuth strategy: the introspection verifier *)

\* data.f for a field of a JSON object: undefined when the field is absent.
Field(data, f) == IF f \in DOMAIN data THEN data[f] ELSE JsUndefined

\* String.prototype.split(' ') on the scope strings the model draws.
splitOnSpace(string) ==
    CASE string = "" -> <<"">>
      [] string = "mcp:tools" -> <<"mcp:tools">>
      [] string = "mcp:tools read" -> <<"mcp:tools", "read">>
      [] string = "read  write" -> <<"read", "", "write">>

\* The answers of the introspection endpoint: the request fails, a status
\* outside 2xx, a 2xx status with a body that is no JSON, with the JSON value
\* null, or with a JSON object.
IntrospectionBodies ==
    { [f \in fields |-> body[f]] :
        fields \in { {"active", "aud", "client_id", "scope", "exp"}, {"aud"}, {"active"} },
        body \in [active : { JsBoolean(TRUE), JsBoolean(FALSE), JsString("true"), JsNumber(1) },
                  aud : { JsString("mcp"), JsString("other"),
                          JsArray(<<JsString("other"), JsString("mcp")>>), JsArray(<<JsString("other")>>) },
                  client_id : { JsString("svc") },
                  scope : { JsString("mcp:tools read") },
                  exp : { JsNumber(86400) }] }
    \cup { [active |-> JsBoolean(TRUE), client_id |-> JsNumber(7),
             scope |-> JsArray(<<JsString("read")>>), exp |-> JsString("86400")],
           [active |-> JsBoolean(TRUE), scope |-> JsString("")],
           [active |-> JsBoolean(TRUE), client_id |-> JsNull, scope |-> JsString("read  write"),
            exp |-> JsNumber(0)] }

IntrospectionResponses ==
    { [kind |-> "rejected", error |-> TypeError("fetch failed")] }
    \cup { [kind |-> "response", status |-> status] : status \in {401, 500} }
    \cup { [kind |-> "response", status |-> 200, json |-> json] : json \in {"invalid", "null"} }
    \cup { [kind |-> "response", status |-> 200, json |-> "object", data |-> data] :
              data \in IntrospectionBodies }

\* response.ok
responseOk(response) == response.status >= 200 /\ response.status <= 299

\* A mutant of isActive: any truthy `active` is accepted.
isActiveTruthy(data) == Field(data, "active") \in {JsBoolean(TRUE), JsString("true"), JsNumber(1)}

\* data.active === true
isActive(data) == Field(data, "active") = JsBoolean(TRUE)

\* A mutant of introspectionTry: the result is built from the local
\* settings alone, whatever the response says of client, scopes and expiry.
introspectionTryIgnoresResponseFields(token, clientId, expectedAudience, response) ==
    IF response.kind = "rejected" THEN Throw(response.error)
    ELSE IF ~responseOk(response)
    THEN Throw([name |-> "InvalidTokenError", message |-> "Token introspection failed: HTTP",
                status |-> response.status])
    ELSE IF response.json = "invalid"
    THEN Throw([name |-> "SyntaxError", message |-> "Unexpected token in JSON"])
    ELSE IF response.json = "null"
    THEN Throw(TypeError("Cannot read properties of null (reading 'active')"))
    ELSE LET data == response.data
         IN  IF ~isActive(data) THEN Throw(InvalidTokenError("Token is not active"))
             ELSE IF ~audienceMatches(Field(data, "aud"), expectedAudience)
             THEN Throw(InvalidTokenError("Token audience does not match MCP_OAUTH_AUDIENCE"))
             ELSE Ok([token |-> token, clientId |-> clientId, scopes |-> <<>>])

\* The try block of the introspection verifier: the result it returns or the
\* error raised inside it.
introspectionTry(token, clientId, expectedAudience, response) ==
    IF response.kind = "rejected" THEN Throw(response.error)
    ELSE IF ~responseOk(response)
    THEN Throw([name |-> "InvalidTokenError", message |-> "Token introspection failed: HTTP",
                status |-> response.status])
    ELSE IF response.json = "invalid"
    THEN Throw([name |-> "SyntaxError", message |-> "Unexpected token in JSON"])
    ELSE IF response.json = "null"
    THEN Throw(TypeError("Cannot read properties of null (reading 'active')"))
    ELSE LET data == response.data
             exp == Field(data, "exp")
             result == [token |-> token,
                        clientId |-> IF Field(data, "client_id").type = "string"
                                     THEN data.client_id.string ELSE clientId,
                        scopes |-> IF Field(data, "scope").type = "string"
                                   THEN splitOnSpace(data.scope.string) ELSE <<>>]
         IN  IF ~isActive(data) THEN Throw(InvalidTokenError("Token is not active"))
             ELSE IF ~audienceMatches(Field(data, "aud"), expectedAudience)
             THEN Throw(InvalidTokenError("Token audience does not match MCP_OAUTH_AUDIENCE"))
             ELSE Ok(IF exp.type = "number"
                     THEN [f \in DOMAIN result \cup {"expiresAt"} |->
                             IF f = "expiresAt" THEN exp.number ELSE result[f]]
                     ELSE result)

\* A mutant of introspectionVerifyAccessToken: without the catch block.
introspectionVerifyAccessTokenLeaks(token, clientId, expectedAudience, response) ==
    introspectionTry(token, clientId, expectedAudience, response)

\* verifyAccessToken of the introspection verifier: an InvalidTokenError
\* raised in the try block is rethrown, any other error is replaced by one.
introspectionVerifyAccessToken(token, clientId, expectedAudience, response) ==
    LET outcome == introspectionTry(token, clientId, expectedAudience, response)
    IN  IF outcome.ok \/ outcome.error.name = "InvalidTokenError" THEN outcome
        ELSE Throw(InvalidTokenError("Token introspection failed"))

-----------------------------------------------------------------------------
(* OAuth strategy: the JWT verifier *)

\* A mutant of extractClientId: the claims are tried from sub to client_id.
extractClientIdSubFirst(payload) ==
    LET clientId ==
            NullishCoalesce(Field(payload, "sub"),
                NullishCoalesce(Field(payload, "cid"),
                    NullishCoalesce(Field(payload, "azp"), Field(payload, "client_id"))))
    IN  IF clientId.type = "string" THEN clientId.string ELSE "unknown-client"

\* A mutant of extractClientId: the first claim that is a string is taken.
extractClientIdFirstString(payload) ==
    LET string(f) == f \in DOMAIN payload /\ payload[f].type = "string"
    IN  IF string("client_id") THEN payload.client_id.string
        ELSE IF string("azp") THEN payload.azp.string
        ELSE IF string("cid") THEN payload.cid.string
        ELSE IF string("sub") THEN payload.sub.string
        ELSE "unknown-client"

\* The client id of a token: the first of client_id, azp, cid and sub that
\* is neither null nor undefined, if it is a string.
extractClientId(payload) ==
    LET clientId ==
            NullishCoalesce(Field(payload, "client_id"),
                NullishCoalesce(Field(payload, "azp"),
                    NullishCoalesce(Field(payload, "cid"), Field(payload, "sub"))))
    IN  IF clientId.type = "string" THEN clientId.string ELSE "unknown-client"

\* A mutant of extractScopes: the empty parts of a string are kept.
extractScopesKeepsEmptyParts(payload) ==
    LET scopeClaim == NullishCoalesce(Field(payload, "scope"), Field(payload, "scp"))
    IN  IF scopeClaim.type = "string"
        THEN splitOnSpace(scopeClaim.string)
        ELSE IF scopeClaim.type = "array"
        THEN LET strings == SelectSeq(scopeClaim.items, LAMBDA item : item.type = "string")
             IN  [i \in 1..Len(strings) |-> strings[i].string]
        ELSE <<>>

\* The scopes of a token, from `scope` or else `scp`: the non-empty words of
\* a string, the string items of an array, nothing otherwise.
extractScopes(payload) ==
    LET scopeClaim == NullishCoalesce(Field(payload, "scope"), Field(payload, "scp"))
    IN  IF scopeClaim.type = "string"
        THEN SelectSeq(splitOnSpace(scopeClaim.string), LAMBDA word : word # "")
        ELSE IF scopeClaim.type = "array"
        THEN LET strings == SelectSeq(scopeClaim.items, LAMBDA item : item.type = "string")
             IN  [i \in 1..Len(strings) |-> strings[i].string]
        ELSE <<>>

\* The payloads jwtVerify resolves with.
JwtPayloads ==
    { [sub |-> JsString("user-1"), exp |-> JsNumber(86400)],
      [client_id |-> JsString("svc"), sub |-> JsString("user-1"), scope |-> JsString("mcp:tools read")],
      [azp |-> JsString("app"), client_id |-> JsNull, scp |-> JsArray(<<JsString("read"), JsNumber(1)>>)] }

\* The values jwtVerify (or the code after it) rejects with: Error objects
\* by their message, and values that are no Error. Some messages hold one
\* of the words the catch block looks for, some several, some none.
JwtRejections ==
    { [isError |-> TRUE, message |-> message] :
        message \in { "token expired", "unexpected audience", "unexpected issuer",
                      "signature verification failed", "Invalid Compact JWS",
                      "expired token: audience, issuer and signature not checked",
                      "signature valid but audience and issuer unexpected",
                      "signature of issuer invalid",
                      "Signature Expired" } }
    \cup { [isError |-> FALSE, string |-> string] : string \in {"boom", "session expired"} }

JwtOutcomes ==
    { [kind |-> "payload", payload |-> payload] : payload \in JwtPayloads }
    \cup { [kind |-> "rejected", error |-> thrown] : thrown \in JwtRejections }

\* message.includes(word) on the messages the model draws and the words the
\* catch block looks for; the search is case-sensitive.
includes(message, word) ==
    word \in (CASE message \in {"token expired", "session expired"} -> {"expired"}
               [] message = "unexpected audience" -> {"audience"}
               [] message = "unexpected issuer" -> {"issuer"}
               [] message = "signature verification failed" -> {"signature"}
               [] message = "expired token: audience, issuer and signature not checked"
                    -> {"expired", "audience", "issuer", "signature"}
               [] message = "signature valid but audience and issuer unexpected"
                    -> {"audience", "issuer", "signature"}
               [] message = "signature of issuer invalid" -> {"issuer", "signature"}
               [] message = "unexpected HTTP response status code 401" -> {"401"}
               [] message = "request was unauthorized" -> {"unauthorized"}
               [] message = "invalid_token: 401 unauthorized" -> {"401", "unauthorized", "invalid_token"}
               [] message = "invalid_token" -> {"invalid_token"}
               [] OTHER -> {})

\* A mutant of jwtVerifyAccessToken: the catch block looks for the words in
\* the opposite order.
jwtVerifyAccessTokenSignatureFirst(token, outcome) ==
    IF outcome.kind = "payload" THEN
        LET payload == outcome.payload
            exp == Field(payload, "exp")
            result == [token |-> token, clientId |-> extractClientId(payload),
                       scopes |-> extractScopes(payload)]
        IN  Ok(IF exp.type = "number"
               THEN [f \in DOMAIN result \cup {"expiresAt"} |->
                       IF f = "expiresAt" THEN exp.number ELSE result[f]]
               ELSE result)
    ELSE
        LET message == IF outcome.error.isError THEN outcome.error.message ELSE outcome.error.string
        IN  IF includes(message, "signature") THEN Throw(InvalidTokenError("Invalid token signature"))
            ELSE IF includes(message, "issuer") THEN Throw(InvalidTokenError("Token issuer does not match"))
            ELSE IF includes(message, "audience") THEN Throw(InvalidTokenError("Token audience does not match"))
            ELSE IF includes(message, "expired") THEN Throw(InvalidTokenError("Token has expired"))
            ELSE Throw(InvalidTokenError("Token validation failed"))

\* verifyAccessToken of the JWT verifier: the whole body runs in a try block
\* whose catch throws an InvalidTokenError chosen by the message.
jwtVerifyAccessToken(token, outcome) ==
    IF outcome.kind = "payload" THEN
        LET payload == outcome.payload
            exp == Field(payload, "exp")
            result == [token |-> token, clientId |-> extractClientId(payload),
                       scopes |-> extractScopes(payload)]
        IN  Ok(IF exp.type = "number"
               THEN [f \in DOMAIN result \cup {"expiresAt"} |->
                       IF f = "expiresAt" THEN exp.number ELSE result[f]]
               ELSE result)
    ELSE
        LET message == IF outcome.error.isError THEN outcome.error.message ELSE outcome.error.string
        IN  IF includes(message, "expired") THEN Throw(InvalidTokenError("Token has expired"))
            ELSE IF includes(message, "audience") THEN Throw(InvalidTokenError("Token audience does not match"))
            ELSE IF includes(message, "issuer") THEN Throw(InvalidTokenError("Token issuer does not match"))
            ELSE IF includes(message, "signature") THEN Throw(InvalidTokenError("Invalid token signature"))
            ELSE Throw(InvalidTokenError("Token validation failed"))

-----------------------------------------------------------------------------
(* Initial states *)

NotExited == 0 - 1

Unresolved == "unresolved"

NoContext == [pending |-> TRUE]

NoVerification == [called |-> FALSE]

\* The bearer token as a request presents it.
PresentedTokens == {"abc123", "wrong", "", "abc1234"}

\* Date.now() advances in steps of TickMs.
TickMs == 600

Times == { k * TickMs : k \in 0..MaxTicks }

\* Retry count of the configurations that do not vary it.
FewRetries == 1

Config(token, internalIssuer, publicIssuer, clientId, clientSecret, introspectionUrl, jwksUrl, method, retries) ==
    [MCP_BEARER_TOKEN |-> token,
     MCP_OAUTH_INTERNAL_ISSUER_URL |-> internalIssuer,
     MCP_OAUTH_PUBLIC_ISSUER_URL |-> publicIssuer,
     MCP_OAUTH_CLIENT_ID |-> clientId,
     MCP_OAUTH_CLIENT_SECRET |-> clientSecret,
     MCP_OAUTH_INTROSPECTION_URL |-> introspectionUrl,
     MCP_OAUTH_JWKS_URL |-> jwksUrl,
     MCP_OAUTH_VALIDATION_METHOD |-> method,
     MCP_OAUTH_AUDIENCE |-> Undef,
     MCP_OAUTH_EXPECTED_ISSUER |-> Undef,
     MCP_OAUTH_DISCOVERY_RETRIES |-> retries]

\* Every combination of CLI flags, fallback mode, public URL and transport,
\* with the bearer token and the issuer set or not.
ModeInputs ==
    /\ options \in AuthOptions
    /\ MCP_AUTH_MODE \in { parseAuthMode(raw) : raw \in RawAuthModes }
    /\ envPublicUrl \in RawPublicUrls
    /\ useSse \in BOOLEAN
    /\ \E token \in RawBearerTokens, issuer \in RawIssuers :
          config = Config(parseStringEnv(token), configIssuer(issuer, Undef), configIssuer(Undef, Undef),
                          parseStringEnv(Undef), parseStringEnv(Undef), parseStringEnv(Undef),
                          parseStringEnv(Undef), parseValidationMethod(Undef), FewRetries)

\* OAuth requested on the command line, with every combination of client
\* credentials, endpoint overrides, validation method and public issuer.
OAuthInputs ==
    /\ options = [enableOauth |-> TRUE, enableBearer |-> FALSE]
    /\ MCP_AUTH_MODE = parseAuthMode(Undef)
    /\ envPublicUrl = Undef
    /\ useSse = TRUE
    /\ \E generic \in {Undef, "https://auth.example.com/realms/test"},
          clientId \in RawClientIds, clientSecret \in RawClientSecrets,
          introspectionUrl \in RawIntrospectionUrls, jwksUrl \in RawJwksUrls,
          method \in RawValidationMethods :
          config = Config(parseStringEnv(Undef),
                          configIssuer("http://keycloak:8080/realms/test", generic),
                          configIssuer(Undef, generic),
                          parseStringEnv(clientId), parseStringEnv(clientSecret),
                          parseStringEnv(introspectionUrl), parseStringEnv(jwksUrl),
                          parseValidationMethod(method), FewRetries)

\* OAuth requested with the default settings and every retry count.
DiscoveryInputs ==
    /\ options = [enableOauth |-> TRUE, enableBearer |-> FALSE]
    /\ MCP_AUTH_MODE = parseAuthMode(Undef)
    /\ envPublicUrl = Undef
    /\ useSse = TRUE
    /\ \E retries \in RetryCounts :
          config = Config(parseStringEnv(Undef), configIssuer("http://keycloak:8080/realms/test", Undef),
                          configIssuer(Undef, Undef), parseStringEnv(Undef), parseStringEnv(Undef),
                          parseStringEnv(Undef), parseStringEnv(Undef), parseValidationMethod(Undef),
                          retries)

\* OAuth requested with client credentials, the validation method forced
\* either way and the expected audience unset, empty or set.
VerifierInputs ==
    /\ options = [enableOauth |-> TRUE, enableBearer |-> FALSE]
    /\ MCP_AUTH_MODE = parseAuthMode(Undef)
    /\ envPublicUrl = Undef
    /\ useSse = TRUE
    /\ \E method \in {"introspection", "jwt"}, audience \in ExpectedAudiences :
          config = [Config(parseStringEnv(Undef), configIssuer("http://keycloak:8080/realms/test", Undef),
                           configIssuer(Undef, Undef), parseStringEnv("test-client"),
                           parseStringEnv("test-secret"), parseStringEnv(Undef), parseStringEnv(Undef),
                           parseValidationMethod(method), FewRetries)
                       EXCEPT !.MCP_OAUTH_AUDIENCE = parseStringEnv(audience)]

\* OAuth requested with JWT validation forced, the expected issuer unset,
\* empty or set, and the public issuer set or not.
ExpectedIssuerInputs ==
    /\ options = [enableOauth |-> TRUE, enableBearer |-> FALSE]
    /\ MCP_AUTH_MODE = parseAuthMode(Undef)
    /\ envPublicUrl = Undef
    /\ useSse = TRUE
    /\ \E expectedIssuer \in RawExpectedIssuers, generic \in {Undef, "https://auth.example.com/realms/test"} :
          config = [Config(parseStringEnv(Undef), configIssuer("http://keycloak:8080/realms/test", generic),
                           configIssuer(Undef, generic), parseStringEnv(Undef), parseStringEnv(Undef),
                           parseStringEnv(Undef), parseStringEnv(Undef), parseValidationMethod("jwt"),
                           FewRetries)
                       EXCEPT !.MCP_OAUTH_EXPECTED_ISSUER = parseStringEnv(expectedIssuer)]

NoCall == [fn |-> "none"]

\* let transport: SSEServerTransport | null = null
NoTransport == 0

NoResponse == [handler |-> "none"]

\* The state of main() before its first step.
Fresh ==
    /\ pc = "main"
    /\ resolvedMode = Unresolved
    /\ attempt = 0
    /\ candidate = 0
    /\ attempts = <<>>
    /\ inflight = 0
    /\ requests = 0
    /\ sleeps = 0
    /\ discoveredMetadata = NoMetadata
    /\ resolution = NoResolution
    /\ authContext = NoContext
    /\ error = NoError
    /\ routes = {}
    /\ listening = FALSE
    /\ exitCode = NotExited
    /\ now = 0
    /\ verification = NoVerification
    /\ transport = NoTransport
    /\ transports = <<>>
    /\ res = NoResponse

Init ==
    /\ ModeInputs \/ OAuthInputs \/ DiscoveryInputs \/ VerifierInputs \/ ExpectedIssuerInputs
    /\ Fresh
    /\ invocation = NoCall

-----------------------------------------------------------------------------
(* Server entry point and discovery *)

\* A discovery request fails with a non-2xx status or with a thrown error.
FailureReasons == {"HTTP 404", "TypeError: fetch failed"}

\* A 2xx response whose body is not JSON: response.json() throws inside the
\* same try block, so the request counts as failed. The model draws such a
\* response for a request only while every earlier response of the
\* discovery was of this kind.
UnparseableBody == "SyntaxError: Unexpected token < in JSON"

ReasonsAfter(log) ==
    IF \A i \in 1..Len(log) : log[i].reason = UnparseableBody
    THEN FailureReasons \cup {UnparseableBody}
    ELSE FailureReasons

NumCandidates == 4

\* main() rejects with `e`.
Reject(e) ==
    /\ pc' = "rejected"
    /\ error' = e
    /\ attempt' = 0 /\ candidate' = 0 /\ attempts' = <<>>

\* buildAuthContext returns `context`; the locals of discovery are gone.
Return(context) ==
    /\ pc' = "built"
    /\ authContext' = context
    /\ attempt' = 0 /\ candidate' = 0 /\ attempts' = <<>>

\* main(), SSE branch, up to the first discovery request; stdio otherwise.
Main ==
    /\ pc = "main"
    /\ UNCHANGED <<transport, transports, res, invocation, options, useSse, MCP_AUTH_MODE, envPublicUrl, config, sleeps, discoveredMetadata, resolution,
                   routes, listening, exitCode, now, verification>>
    /\ resolvedMode' = IF useSse THEN resolveAuthMode(options, MCP_AUTH_MODE) ELSE resolvedMode
    /\ IF ~useSse THEN
            /\ pc' = "stdio"
            /\ UNCHANGED <<attempt, candidate, attempts, inflight, requests, authContext, error>>
       ELSE LET built == buildAuthContext(options, MCP_AUTH_MODE, envPublicUrl, config)
            IN  IF ~built.ok THEN
                    /\ Reject(built.error)
                    /\ UNCHANGED <<inflight, requests, authContext>>
                ELSE IF "discover" \in DOMAIN built THEN
                    /\ pc' = "fetching"
                    /\ attempt' = 1
                    /\ candidate' = 1
                    /\ attempts' = <<>>
                    /\ inflight' = inflight + 1
                    /\ requests' = requests + 1
                    /\ UNCHANGED <<authContext, error>>
                ELSE
                    /\ Return(built.value)
                    /\ UNCHANGED <<inflight, requests, error>>

\* The issuer URL object of the running discovery.
Issuer == newURL(config.MCP_OAUTH_INTERNAL_ISSUER_URL).value

\* A discovery request is answered with a 2xx status and a JSON document:
\* discoverOAuthMetadata returns it and buildOAuthAuthContext runs to its end.
FetchSucceeds ==
    /\ pc = "fetching"
    /\ \E document \in DiscoveryDocuments :
          LET done == finishOAuthAuthContext(config, document, mcpPublicUrlOf(envPublicUrl).value)
          IN  /\ discoveredMetadata' = document
              /\ resolution' = done.resolution
              /\ inflight' = inflight - 1
              /\ IF done.result.ok
                 THEN Return(done.result.value) /\ UNCHANGED error
                 ELSE Reject(done.result.error) /\ UNCHANGED authContext
    /\ UNCHANGED <<transport, transports, res, invocation, options, useSse, MCP_AUTH_MODE, envPublicUrl, config, resolvedMode, requests, sleeps,
                   routes, listening, exitCode, now, verification>>

\* A mutant of FetchFails: discovery sleeps after the last round too.
FetchFailsSleepsAfterLastRound ==
    /\ pc = "fetching"
    /\ \E reason \in ReasonsAfter(attempts) :
          LET url == buildWellKnownCandidates(Issuer)[candidate]
              log == Append(attempts, [url |-> url, reason |-> reason])
          IN  IF candidate < NumCandidates THEN
                  /\ attempts' = log
                  /\ candidate' = candidate + 1
                  /\ requests' = requests + 1
                  /\ UNCHANGED <<pc, attempt, inflight, sleeps, error>>
              ELSE IF attempt < config.MCP_OAUTH_DISCOVERY_RETRIES THEN
                  /\ attempts' = log
                  /\ pc' = "sleeping"
                  /\ inflight' = inflight - 1
                  /\ sleeps' = sleeps + 1
                  /\ UNCHANGED <<attempt, candidate, requests, error>>
              ELSE
                  /\ Reject(DiscoveryError(Issuer, log))
                  /\ inflight' = inflight - 1
                  /\ sleeps' = sleeps + 1
                  /\ UNCHANGED requests
    /\ UNCHANGED <<transport, transports, res, invocation, options, useSse, MCP_AUTH_MODE, envPublicUrl, config, resolvedMode, discoveredMetadata, resolution,
                   authContext, routes, listening, exitCode, now, verification>>

\* A mutant of FetchFails: a body that is not JSON ends discovery at once.
FetchFailsAbortsOnUnparseableBody ==
    /\ pc = "fetching"
    /\ \E reason \in ReasonsAfter(attempts) :
          LET url == buildWellKnownCandidates(Issuer)[candidate]
              log == Append(attempts, [url |-> url, reason |-> reason])
          IN  IF reason = UnparseableBody THEN
                  /\ Reject(DiscoveryError(Issuer, log))
                  /\ inflight' = inflight - 1
                  /\ UNCHANGED <<requests, sleeps>>
              ELSE IF candidate < NumCandidates THEN
                  /\ attempts' = log
                  /\ candidate' = candidate + 1
                  /\ requests' = requests + 1
                  /\ UNCHANGED <<pc, attempt, inflight, sleeps, error>>
              ELSE IF attempt < config.MCP_OAUTH_DISCOVERY_RETRIES THEN
                  /\ attempts' = log
                  /\ pc' = "sleeping"
                  /\ inflight' = inflight - 1
                  /\ sleeps' = sleeps + 1
                  /\ UNCHANGED <<attempt, candidate, requests, error>>
              ELSE
                  /\ Reject(DiscoveryError(Issuer, log))
                  /\ inflight' = inflight - 1
                  /\ UNCHANGED <<requests, sleeps>>
    /\ UNCHANGED <<transport, transports, res, invocation, options, useSse, MCP_AUTH_MODE, envPublicUrl, config,
                   resolvedMode, discoveredMetadata, resolution, authContext, routes, listening, exitCode,
                   now, verification>>

\* A discovery request fails: the failure is logged and discovery goes on to
\* the next candidate, to the sleep before the next round, or gives up.
FetchFails ==
    /\ pc = "fetching"
    /\ \E reason \in ReasonsAfter(attempts) :
          LET url == buildWellKnownCandidates(Issuer)[candidate]
              log == Append(attempts, [url |-> url, reason |-> reason])
          IN  IF candidate < NumCandidates THEN
                  /\ attempts' = log
                  /\ candidate' = candidate + 1
                  /\ requests' = requests + 1
                  /\ UNCHANGED <<pc, attempt, inflight, sleeps, error>>
              ELSE IF attempt < config.MCP_OAUTH_DISCOVERY_RETRIES THEN
                  /\ attempts' = log
                  /\ pc' = "sleeping"
                  /\ inflight' = inflight - 1
                  /\ sleeps' = sleeps + 1
                  /\ UNCHANGED <<attempt, candidate, requests, error>>
              ELSE
                  /\ Reject(DiscoveryError(Issuer, log))
                  /\ inflight' = inflight - 1
                  /\ UNCHANGED <<requests, sleeps>>
    /\ UNCHANGED <<transport, transports, res, invocation, options, useSse, MCP_AUTH_MODE, envPublicUrl, config, resolvedMode, discoveredMetadata, resolution,
                   authContext, routes, listening, exitCode, now, verification>>

\* A mutant of SleepEnds: the next round sends its requests all at once.
SleepEndsRequestsInParallel ==
    /\ pc = "sleeping"
    /\ pc' = "fetching"
    /\ attempt' = attempt + 1
    /\ candidate' = 1
    /\ inflight' = inflight + NumCandidates
    /\ requests' = requests + NumCandidates
    /\ UNCHANGED <<transport, transports, res, invocation, options, useSse, MCP_AUTH_MODE, envPublicUrl, config, resolvedMode, attempts, sleeps,
                   discoveredMetadata, resolution, authContext, error, routes, listening, exitCode, now, verification>>

\* The sleep between two rounds ends and the next round sends its first request.
SleepEnds ==
    /\ pc = "sleeping"
    /\ pc' = "fetching"
    /\ attempt' = attempt + 1
    /\ candidate' = 1
    /\ inflight' = inflight + 1
    /\ requests' = requests + 1
    /\ UNCHANGED <<transport, transports, res, invocation, options, useSse, MCP_AUTH_MODE, envPublicUrl, config, resolvedMode, attempts, sleeps,
                   discoveredMetadata, resolution, authContext, error, routes, listening, exitCode, now, verification>>

Route(method, path, protected) == [method |-> method, path |-> path, protected |-> protected]

\* A mutant of RoutesFor: POST /messages is registered without the middleware.
RoutesForMessagesOpen(context) ==
    LET protected == context.middleware # NullMiddleware
    IN  { Route("GET", "/sse", protected), Route("ALL", "/", protected),
          Route("ALL", "/mcp", protected), Route("POST", "/messages", FALSE) }
        \cup (IF "oauthMetadata" \in DOMAIN context
              THEN { Route("USE", "mcpAuthMetadataRouter", FALSE) }
              ELSE { Route("GET", "/.well-known/oauth-authorization-server", FALSE),
                     Route("GET", "/.well-known/oauth-authorization-server/sse", FALSE),
                     Route("GET", "/sse/.well-known/oauth-authorization-server", FALSE) })

\* The routes main() registers for a context.
RoutesFor(context) ==
    LET protected == context.middleware # NullMiddleware
    IN  { Route("GET", "/sse", protected), Route("ALL", "/", protected),
          Route("ALL", "/mcp", protected), Route("POST", "/messages", protected) }
        \cup (IF "oauthMetadata" \in DOMAIN context
              THEN { Route("USE", "mcpAuthMetadataRouter", FALSE) }
              ELSE { Route("GET", "/.well-known/oauth-authorization-server", FALSE),
                     Route("GET", "/.well-known/oauth-authorization-server/sse", FALSE),
                     Route("GET", "/sse/.well-known/oauth-authorization-server", FALSE) })

\* main() after buildAuthContext has returned: the routes are registered and
\* app.listen is called; binding the port may fail, which is only logged.
Listen ==
    /\ pc = "built"
    /\ pc' = "serving"
    /\ routes' = RoutesFor(authContext)
    /\ listening' \in BOOLEAN
    /\ UNCHANGED <<transport, transports, res, invocation, options, useSse, MCP_AUTH_MODE, envPublicUrl, config, resolvedMode, attempt, candidate,
                   attempts, inflight, requests, sleeps, discoveredMetadata, resolution, authContext, error,
                   exitCode, now, verification>>

\* A mutant of MainCatch: the error is logged and the server listens anyway.
MainCatchKeepsServing ==
    /\ pc = "rejected"
    /\ pc' = "serving"
    /\ listening' = TRUE
    /\ UNCHANGED <<transport, transports, res, invocation, options, useSse, MCP_AUTH_MODE, envPublicUrl, config, resolvedMode, attempt,
                   candidate, attempts, inflight, requests, sleeps, discoveredMetadata,
                   resolution, authContext, error, routes, exitCode, now, verification>>

\* main().catch: the error is logged and the process exits with status 1.
MainCatch ==
    /\ pc = "rejected"
    /\ pc' = "exited"
    /\ exitCode' = 1
    /\ UNCHANGED <<transport, transports, res, invocation, options, useSse, MCP_AUTH_MODE, envPublicUrl, config, resolvedMode, attempt, candidate,
                   attempts, inflight, requests, sleeps, discoveredMetadata, resolution, authContext, error,
                   routes, listening, now, verification>>

-----------------------------------------------------------------------------
(* Requests *)

\* A request on a protected route of a bearer-mode server: the middleware
\* calls verifyAccessToken with the presented token.
BearerVerify ==
    /\ pc = "serving"
    /\ listening
    /\ authContext.middleware.kind = "bearer"
    /\ \E accessToken \in PresentedTokens, dateNow \in Times :
          /\ now <= dateNow
          /\ now' = dateNow
          /\ verification' =
                [called |-> TRUE, strategy |-> "bearer", accessToken |-> accessToken, dateNow |-> dateNow,
                 result |-> bearerVerifyAccessToken(authContext.middleware.token, accessToken, dateNow)]
    /\ res' = NoResponse
    /\ UNCHANGED <<transport, transports, invocation, options, useSse, MCP_AUTH_MODE, envPublicUrl, config, pc, resolvedMode, attempt, candidate,
                   attempts, inflight, requests, sleeps, discoveredMetadata, resolution, authContext, error,
                   routes, listening, exitCode>>

\* A request on a protected route of a server that validates by
\* introspection: verifyAccessToken posts the token to the introspection
\* endpoint and judges the answer.
IntrospectionVerify ==
    /\ pc = "serving"
    /\ listening
    /\ authContext.middleware.kind = "introspection"
    /\ \E accessToken \in {"abc123"}, response \in IntrospectionResponses :
          verification' =
              [called |-> TRUE, strategy |-> "introspection", accessToken |-> accessToken,
               response |-> response,
               result |-> introspectionVerifyAccessToken(accessToken, authContext.middleware.clientId,
                                                         config.MCP_OAUTH_AUDIENCE, response)]
    /\ res' = NoResponse
    /\ UNCHANGED <<transport, transports, invocation, options, useSse, MCP_AUTH_MODE, envPublicUrl, config, pc, resolvedMode, attempt,
                   candidate, attempts, inflight, requests, sleeps, discoveredMetadata, resolution,
                   authContext, error, routes, listening, exitCode, now>>

\* A mutant of JwtVerify: each call decides the validation method again and
\* writes it into the context.
JwtVerifyRedecides ==
    /\ pc = "serving"
    /\ listening
    /\ authContext.middleware.kind = "jwt"
    /\ \E accessToken \in {"abc123"}, outcome \in JwtOutcomes :
          /\ verification' =
                [called |-> TRUE, strategy |-> "jwt", accessToken |-> accessToken, outcome |-> outcome,
                 result |-> jwtVerifyAccessToken(accessToken, outcome)]
          /\ authContext' =
                [authContext EXCEPT
                    !.validationMethod = IF outcome.kind = "payload" THEN "jwt" ELSE "introspection"]
    /\ res' = NoResponse
    /\ UNCHANGED <<transport, transports, invocation, options, useSse, MCP_AUTH_MODE, envPublicUrl, config, pc, resolvedMode, attempt,
                   candidate, attempts, inflight, requests, sleeps, discoveredMetadata, resolution,
                   error, routes, listening, exitCode, now>>

\* A request on a protected route of a server that validates JWTs:
\* verifyAccessToken hands the token to jwtVerify and judges the outcome.
JwtVerify ==
    /\ pc = "serving"
    /\ listening
    /\ authContext.middleware.kind = "jwt"
    /\ \E accessToken \in {"abc123"}, outcome \in JwtOutcomes :
          verification' =
              [called |-> TRUE, strategy |-> "jwt", accessToken |-> accessToken, outcome |-> outcome,
               result |-> jwtVerifyAccessToken(accessToken, outcome)]
    /\ res' = NoResponse
    /\ UNCHANGED <<transport, transports, invocation, options, useSse, MCP_AUTH_MODE, envPublicUrl, config, pc, resolvedMode, attempt,
                   candidate, attempts, inflight, requests, sleeps, discoveredMetadata, resolution,
                   authContext, error, routes, listening, exitCode, now>>

Next ==
    \/ Main
    \/ FetchSucceeds
    \/ FetchFails
    \/ SleepEnds
    \/ Listen
    \/ MainCatch
    \/ BearerVerify
    \/ IntrospectionVerify
    \/ JwtVerify

Spec == Init /\ [][Next]_vars

-----------------------------------------------------------------------------
(* Pure helper functions, called on their own *)

\* The records over a subset of `claims`, each present claim with one of the
\* values that `valuesOf` gives for it: a claim is absent or has a value.
Payloads(claims, valuesOf) ==
    UNION { { choice \in [present -> UNION { valuesOf[f] : f \in present }] :
                \A f \in present : choice[f] \in valuesOf[f] }
            : present \in SUBSET claims }

\* The claims extractClientId reads, each absent, null, a string of its own
\* or a number.
ClientIdClaims == {"client_id", "azp", "cid", "sub"}

ClientIdValues ==
    [claim \in ClientIdClaims |->
        { JsNull, JsNumber(7),
          JsString(CASE claim = "client_id" -> "svc" [] claim = "azp" -> "app"
                     [] claim = "cid" -> "cid-1" [] claim = "sub" -> "user-1") }]

ClientIdPayloads == Payloads(ClientIdClaims, ClientIdValues)

\* The claims extractScopes reads, each absent, null, a string, an array or a
\* number.
ScopeClaims == {"scope", "scp"}

ScopeValues ==
    [claim \in ScopeClaims |->
        { JsNull, JsNumber(5), JsString(""), JsString("mcp:tools"), JsString("mcp:tools read"),
          JsString("read  write"), JsArray(<<>>),
          JsArray(<<JsString("read"), JsNumber(1), JsString("write")>>) }]

ScopePayloads == Payloads(ScopeClaims, ScopeValues)

\* A helper is about to be called with arguments drawn from the model's
\* sets; the server itself is not started.
FunctionInit ==
    /\ options = [port |-> 3000]
    /\ MCP_AUTH_MODE = parseAuthMode(Undef)
    /\ envPublicUrl = Undef
    /\ useSse = FALSE
    /\ config = Config(parseStringEnv(Undef), configIssuer(Undef, Undef), configIssuer(Undef, Undef),
                       parseStringEnv(Undef), parseStringEnv(Undef), parseStringEnv(Undef),
                       parseStringEnv(Undef), parseValidationMethod(Undef), FewRetries)
    /\ Fresh
    /\ \/ \E aud \in Audiences, expected \in ExpectedAudiences :
             invocation = [fn |-> "audienceMatches", aud |-> aud, expected |-> expected, returned |-> FALSE]
       \/ \E payload \in ClientIdPayloads :
             invocation = [fn |-> "extractClientId", payload |-> payload, returned |-> FALSE]
       \/ \E payload \in ScopePayloads :
             invocation = [fn |-> "extractScopes", payload |-> payload, returned |-> FALSE]

\* audienceMatches(aud, expected) returns.
AudienceMatches ==
    /\ invocation.fn = "audienceMatches"
    /\ ~invocation.returned
    /\ invocation' = [fn |-> "audienceMatches", aud |-> invocation.aud, expected |-> invocation.expected,
                      returned |-> TRUE, result |-> audienceMatches(invocation.aud, invocation.expected)]
    /\ UNCHANGED <<transport, transports, res, options, useSse, MCP_AUTH_MODE, envPublicUrl, config, pc, resolvedMode, attempt,
                   candidate, attempts, inflight, requests, sleeps, discoveredMetadata, resolution,
                   authContext, error, routes, listening, exitCode, now, verification>>

\* extractClientId(payload) returns.
ExtractClientId ==
    /\ invocation.fn = "extractClientId"
    /\ ~invocation.returned
    /\ invocation' = [fn |-> "extractClientId", payload |-> invocation.payload,
                      returned |-> TRUE, result |-> extractClientId(invocation.payload)]
    /\ UNCHANGED <<transport, transports, res, options, useSse, MCP_AUTH_MODE, envPublicUrl, config, pc, resolvedMode, attempt,
                   candidate, attempts, inflight, requests, sleeps, discoveredMetadata, resolution,
                   authContext, error, routes, listening, exitCode, now, verification>>

\* extractScopes(payload) returns.
ExtractScopes ==
    /\ invocation.fn = "extractScopes"
    /\ ~invocation.returned
    /\ invocation' = [fn |-> "extractScopes", payload |-> invocation.payload,
                      returned |-> TRUE, result |-> extractScopes(invocation.payload)]
    /\ UNCHANGED <<transport, transports, res, options, useSse, MCP_AUTH_MODE, envPublicUrl, config, pc, resolvedMode, attempt,
                   candidate, attempts, inflight, requests, sleeps, discoveredMetadata, resolution,
                   authContext, error, routes, listening, exitCode, now, verification>>

FunctionNext ==
    \/ AudienceMatches
    \/ ExtractClientId
    \/ ExtractScopes

FunctionSpec == FunctionInit /\ [][FunctionNext]_vars

-----------------------------------------------------------------------------
(* The introspection-only build of the module *)

\* buildAuthContext of the introspection-only build up to its first await:
\* the context, the error, or the issuer whose discovery it starts.
buildAuthContextIntrospectionOnly(opts, fallback, envUrl, cfg) ==
    LET mode == resolveAuthMode(opts, fallback)
        mcpPublicUrl == mcpPublicUrlOf(envUrl)
        internalIssuerString == cfg.MCP_OAUTH_INTERNAL_ISSUER_URL
        issuer == newURL(internalIssuerString)
    IN  IF ~mcpPublicUrl.ok THEN mcpPublicUrl
        ELSE IF mode = "none" THEN Ok([mode |-> mode, middleware |-> NullMiddleware])
        ELSE IF mode = "bearer" THEN buildBearerAuthContext(cfg.MCP_BEARER_TOKEN)
        ELSE IF mode = "oauth" THEN
            IF internalIssuerString = Undef \/ internalIssuerString = ""
            THEN Throw(Error("MCP_OAUTH_INTERNAL_ISSUER_URL (or MCP_OAUTH_ISSUER_URL) is required when auth mode is oauth."))
            ELSE IF cfg.MCP_OAUTH_CLIENT_ID = Undef \/ cfg.MCP_OAUTH_CLIENT_ID = ""
            THEN Throw(Error("MCP_OAUTH_CLIENT_ID is required when auth mode is oauth."))
            ELSE IF cfg.MCP_OAUTH_CLIENT_SECRET = Undef \/ cfg.MCP_OAUTH_CLIENT_SECRET = ""
            THEN Throw(Error("MCP_OAUTH_CLIENT_SECRET is required when auth mode is oauth."))
            ELSE IF ~issuer.ok THEN issuer
            ELSE IF ~(1 <= cfg.MCP_OAUTH_DISCOVERY_RETRIES)
                 THEN Throw(DiscoveryError(issuer.value, <<>>))
                 ELSE [ok |-> TRUE, discover |-> issuer.value]
        ELSE Ok([mode |-> "none", middleware |-> NullMiddleware])

\* buildOAuthAuthContext of the introspection-only build from the point
\* where discovery has returned: the context or the error.
finishOAuthAuthContextIntrospectionOnly(cfg, metadata, mcpPublicUrl) ==
    LET introspectionEndpoint == introspectionEndpointOf(cfg, metadata)
        oauthMetadata == rewriteOAuthMetadataIssuer(metadata, cfg.MCP_OAUTH_PUBLIC_ISSUER_URL)
    IN  IF introspectionEndpoint = Undef \/ introspectionEndpoint = ""
        THEN Throw(Error("OAuth metadata is missing an introspection_endpoint. Set MCP_OAUTH_INTROSPECTION_URL to override."))
        ELSE Ok([mode |-> "oauth",
                 middleware |-> IntrospectionMiddleware(introspectionEndpoint,
                                                        Coalesce(cfg.MCP_OAUTH_CLIENT_ID, "unknown-client"),
                                                        cfg.MCP_OAUTH_CLIENT_SECRET, mcpPublicUrl),
                 oauthMetadata |-> oauthMetadata])

\* The secret of the client as the environment may hold it.
RawClientSecretsOrEmpty == RawClientSecrets \cup {""}

\* OAuth requested, with the public URL, the issuer, the client credentials
\* and the introspection override each set or not.
IntrospectionOnlyInputs ==
    /\ options = [enableOauth |-> TRUE, enableBearer |-> FALSE]
    /\ MCP_AUTH_MODE = parseAuthMode(Undef)
    /\ envPublicUrl \in RawPublicUrls
    /\ useSse = TRUE
    /\ \E issuer \in RawIssuers, clientId \in RawClientIds, clientSecret \in RawClientSecretsOrEmpty,
          introspectionUrl \in RawIntrospectionUrls, retries \in FewRetries..MaxRetries :
          config = Config(parseStringEnv(Undef), configIssuer(issuer, Undef), configIssuer(Undef, Undef),
                          parseStringEnv(clientId), parseStringEnv(clientSecret),
                          parseStringEnv(introspectionUrl), parseStringEnv(Undef),
                          parseValidationMethod(Undef), retries)

IntrospectionOnlyInit ==
    /\ IntrospectionOnlyInputs
    /\ Fresh
    /\ invocation = NoCall

\* main(), SSE branch, up to the first discovery request; stdio otherwise.
MainIntrospectionOnly ==
    /\ pc = "main"
    /\ UNCHANGED <<transport, transports, res, invocation, options, useSse, MCP_AUTH_MODE, envPublicUrl, config, sleeps, discoveredMetadata, resolution,
                   routes, listening, exitCode, now, verification>>
    /\ resolvedMode' = IF useSse THEN resolveAuthMode(options, MCP_AUTH_MODE) ELSE resolvedMode
    /\ IF ~useSse THEN
            /\ pc' = "stdio"
            /\ UNCHANGED <<attempt, candidate, attempts, inflight, requests, authContext, error>>
       ELSE LET built == buildAuthContextIntrospectionOnly(options, MCP_AUTH_MODE, envPublicUrl, config)
            IN  IF ~built.ok THEN
                    /\ Reject(built.error)
                    /\ UNCHANGED <<inflight, requests, authContext>>
                ELSE IF "discover" \in DOMAIN built THEN
                    /\ pc' = "fetching"
                    /\ attempt' = 1
                    /\ candidate' = 1
                    /\ attempts' = <<>>
                    /\ inflight' = inflight + 1
                    /\ requests' = requests + 1
                    /\ UNCHANGED <<authContext, error>>
                ELSE
                    /\ Return(built.value)
                    /\ UNCHANGED <<inflight, requests, error>>

\* A discovery request is answered with a 2xx status and a JSON document:
\* discoverOAuthMetadata returns it and buildOAuthAuthContext runs to its end.
FetchSucceedsIntrospectionOnly ==
    /\ pc = "fetching"
    /\ \E document \in DiscoveryDocuments :
          LET done == finishOAuthAuthContextIntrospectionOnly(config, document,
                                                              mcpPublicUrlOf(envPublicUrl).value)
          IN  /\ discoveredMetadata' = document
              /\ inflight' = inflight - 1
              /\ IF done.ok
                 THEN Return(done.value) /\ UNCHANGED error
                 ELSE Reject(done.error) /\ UNCHANGED authContext
    /\ UNCHANGED <<transport, transports, res, invocation, options, useSse, MCP_AUTH_MODE, envPublicUrl, config, resolvedMode, requests, sleeps,
                   resolution, routes, listening, exitCode, now, verification>>

IntrospectionOnlyNext ==
    \/ MainIntrospectionOnly
    \/ FetchSucceedsIntrospectionOnly
    \/ FetchFails
    \/ SleepEnds
    \/ Listen
    \/ MainCatch
    \/ IntrospectionVerify

IntrospectionOnlySpec == IntrospectionOnlyInit /\ [][IntrospectionOnlyNext]_vars

-----------------------------------------------------------------------------
(* The openid-client build of the module: introspection or userinfo *)

\* toOAuthMetadata: the issuer is the public issuer when one is set; each
\* endpoint is moved to the public issuer by its pathname and query, and is
\* left as it is when it is unset, when no public issuer is set or when one
\* of the two does not parse. Properties without a value are left out.
toOAuthMetadata(metadata, publicIssuer) ==
    LET remapUrl(url) ==
            IF url = Undef \/ url = "" \/ publicIssuer = Undef \/ publicIssuer = "" THEN url
            ELSE LET original == newURL(url)
                     pub == newURL(publicIssuer)
                 IN  IF ~original.ok \/ ~pub.ok THEN url
                     ELSE href([newURLFromPathname(original.value, pub.value)
                                   EXCEPT !.search = original.value.search])
        values ==
            [issuer |-> Coalesce(publicIssuer, Prop(metadata, "issuer")),
             authorization_endpoint |-> Coalesce(remapUrl(Prop(metadata, "authorization_endpoint")), ""),
             token_endpoint |-> Coalesce(remapUrl(Prop(metadata, "token_endpoint")), ""),
             registration_endpoint |-> remapUrl(Prop(metadata, "registration_endpoint")),
             revocation_endpoint |-> remapUrl(Prop(metadata, "revocation_endpoint")),
             introspection_endpoint |-> remapUrl(Prop(metadata, "introspection_endpoint")),
             userinfo_endpoint |-> remapUrl(Prop(metadata, "userinfo_endpoint")),
             jwks_uri |-> remapUrl(Prop(metadata, "jwks_uri"))]
        defined == { f \in DOMAIN values : values[f] # Undef }
    IN  [f \in defined |-> values[f]]

\* requireBearerAuth around the verifier of buildOidcTokenVerifier.
OidcMiddleware(useIntrospection, mcpPublicUrl) ==
    [kind |-> "oidc", useIntrospection |-> useIntrospection, resource |-> href(mcpPublicUrl)]

\* The answers of client.fetchUserInfo and client.tokenIntrospection: a
\* response body, or a rejection with an Error or with a value that is none.
UserinfoBodies ==
    { [sub |-> JsString("user-1"), email |-> JsString("user@example.com")],
      [sub |-> JsString("user-1"), aud |-> JsString("other"), exp |-> JsNumber(86400),
       scope |-> JsString("mcp:tools read")],
      [email |-> JsString("user@example.com")] }

OidcIntrospectionBodies ==
    { [active |-> JsBoolean(TRUE), client_id |-> JsString("svc"), sub |-> JsString("user-1"),
       scope |-> JsString("mcp:tools read"), exp |-> JsNumber(86400)],
      [active |-> JsBoolean(TRUE), sub |-> JsString("user-1")],
      [active |-> JsBoolean(TRUE)],
      [active |-> JsBoolean(FALSE), client_id |-> JsString("svc")] }

OidcRejections ==
    { [isError |-> TRUE, message |-> message] :
        message \in { "unexpected HTTP response status code 401", "request was unauthorized",
                      "invalid_token: 401 unauthorized", "invalid_token", "fetch failed" } }
    \cup { [isError |-> FALSE, string |-> "boom"] }

OidcOutcomes(useIntrospection) ==
    { [kind |-> "body", data |-> data] :
        data \in IF useIntrospection THEN OidcIntrospectionBodies ELSE UserinfoBodies }
    \cup { [kind |-> "rejected", error |-> thrown] : thrown \in OidcRejections }

\* A mutant of oidcVerifyAccessToken: the userinfo strategy gives the token
\* the lifetime and the scopes of the static bearer strategy.
oidcVerifyAccessTokenBearerLifetime(useIntrospection, token, outcome, dateNow) ==
    IF outcome.kind = "body" /\ ~useIntrospection
    THEN Ok([token |-> token,
             clientId |-> NullishCoalesce(Field(outcome.data, "sub"), JsString("unknown")),
             scopes |-> <<"mcp:tools">>,
             expiresAt |-> JsNumber((dateNow \div 1000) + 24 * 60 * 60)])
    ELSE Throw(InvalidTokenError("Token validation failed"))

\* A mutant of oidcVerifyAccessToken: the catch block looks for
\* invalid_token first, and an InvalidTokenError raised in the try block is
\* classified like any other error.
oidcVerifyAccessTokenInvalidTokenFirst(useIntrospection, token, outcome, dateNow) ==
    IF outcome.kind = "body" THEN
        LET data == outcome.data
        IN  IF useIntrospection THEN
                IF Field(data, "active") \in {JsUndefined, JsNull, JsBoolean(FALSE), JsString(""), JsNumber(0)}
                THEN Throw(InvalidTokenError("Token validation failed"))
                ELSE Ok([token |-> token,
                         clientId |-> NullishCoalesce(Field(data, "client_id"),
                                          NullishCoalesce(Field(data, "sub"), JsString("unknown"))),
                         scopes |-> IF Field(data, "scope").type = "string"
                                    THEN splitOnSpace(data.scope.string) ELSE <<>>,
                         expiresAt |-> Field(data, "exp")])
            ELSE Ok([token |-> token,
                     clientId |-> NullishCoalesce(Field(data, "sub"), JsString("unknown")),
                     scopes |-> <<>>,
                     expiresAt |-> JsNumber((dateNow \div 1000) + 3600)])
    ELSE
        LET message == IF outcome.error.isError THEN outcome.error.message ELSE outcome.error.string
        IN  IF includes(message, "invalid_token")
            THEN Throw(InvalidTokenError("Invalid or expired token"))
            ELSE IF includes(message, "401") \/ includes(message, "unauthorized")
            THEN Throw(InvalidTokenError("Token rejected by authorization server"))
            ELSE Throw(InvalidTokenError("Token validation failed"))

\* verifyAccessToken of the openid-client verifier. clientId and expiresAt
\* are values of type unknown: the code casts them without a check.
oidcVerifyAccessToken(useIntrospection, token, outcome, dateNow) ==
    IF outcome.kind = "body" THEN
        LET data == outcome.data
        IN  IF useIntrospection THEN
                IF Field(data, "active") \in {JsUndefined, JsNull, JsBoolean(FALSE), JsString(""), JsNumber(0)}
                THEN Throw(InvalidTokenError("Token is not active"))
                ELSE Ok([token |-> token,
                         clientId |-> NullishCoalesce(Field(data, "client_id"),
                                          NullishCoalesce(Field(data, "sub"), JsString("unknown"))),
                         scopes |-> IF Field(data, "scope").type = "string"
                                    THEN splitOnSpace(data.scope.string) ELSE <<>>,
                         expiresAt |-> Field(data, "exp")])
            ELSE Ok([token |-> token,
                     clientId |-> NullishCoalesce(Field(data, "sub"), JsString("unknown")),
                     scopes |-> <<>>,
                     expiresAt |-> JsNumber((dateNow \div 1000) + 3600)])
    ELSE
        LET message == IF outcome.error.isError THEN outcome.error.message ELSE outcome.error.string
        IN  IF includes(message, "401") \/ includes(message, "unauthorized")
            THEN Throw(InvalidTokenError("Token rejected by authorization server"))
            ELSE IF includes(message, "invalid_token")
            THEN Throw(InvalidTokenError("Invalid or expired token"))
            ELSE Throw(InvalidTokenError("Token validation failed"))

\* The error discoverWithRetry gives up with: it names the issuer and the
\* message of the last error, or `undefined` when no attempt was made.
OidcDiscoveryError(issuerUrl, lastError) ==
    [name |-> "Error", message |-> "Unable to discover OIDC issuer at",
     issuer |-> issuerUrl, lastError |-> lastError]

\* buildAuthContext of the openid-client build up to its first await: the
\* context, the error, or the issuer string whose discovery it starts.
buildAuthContextOidc(opts, fallback, envUrl, cfg) ==
    LET mode == resolveAuthMode(opts, fallback)
        mcpPublicUrl == newURL(Coalesce(envUrl, "http://localhost:3000/mcp"))
        internalIssuerString == cfg.MCP_OAUTH_INTERNAL_ISSUER_URL
    IN  IF ~mcpPublicUrl.ok THEN mcpPublicUrl
        ELSE IF mode = "none" THEN Ok([mode |-> mode, middleware |-> NullMiddleware])
        ELSE IF mode = "bearer" THEN buildBearerAuthContext(cfg.MCP_BEARER_TOKEN)
        ELSE IF mode = "oauth" THEN
            IF internalIssuerString = Undef \/ internalIssuerString = ""
            THEN Throw(Error("MCP_OAUTH_ISSUER_URL is required when auth mode is oauth."))
            ELSE IF ~(1 <= cfg.MCP_OAUTH_DISCOVERY_RETRIES)
                 THEN Throw(OidcDiscoveryError(internalIssuerString, Undef))
                 ELSE [ok |-> TRUE, discover |-> internalIssuerString]
        ELSE Ok([mode |-> "none", middleware |-> NullMiddleware])

\* buildOAuthAuthContext of the openid-client build from the point where
\* discoverWithRetry has returned: the context or the error.
finishOAuthAuthContextOidc(cfg, serverMetadata, mcpPublicUrl) ==
    LET hasClientCredentials == hasClientCredentialsOf(cfg)
        hasIntrospectionEndpoint == Prop(serverMetadata, "introspection_endpoint") \notin {Undef, ""}
        hasUserinfoEndpoint == Prop(serverMetadata, "userinfo_endpoint") \notin {Undef, ""}
        useIntrospection == hasClientCredentials /\ hasIntrospectionEndpoint
    IN  IF ~useIntrospection /\ ~hasUserinfoEndpoint
        THEN Throw(Error("OAuth configuration error: No userinfo endpoint available and no client credentials for introspection."))
        ELSE Ok([mode |-> "oauth",
                 middleware |-> OidcMiddleware(useIntrospection, mcpPublicUrl),
                 oauthMetadata |-> toOAuthMetadata(serverMetadata, cfg.MCP_OAUTH_PUBLIC_ISSUER_URL),
                 validationMethod |-> IF useIntrospection THEN "introspection" ELSE "userinfo"])

\* The server metadata client.discovery may resolve with: the discovery
\* documents, with or without a userinfo endpoint.
ServerMetadata ==
    { [f \in DOMAIN document \ dropped |-> document[f]] :
        document \in DiscoveryDocuments, dropped \in {{}, {"userinfo_endpoint"}} }

\* OAuth requested, with the public URL, the issuer, the public issuer, the
\* client credentials and the retry count each varied.
OidcInputs ==
    /\ options = [enableOauth |-> TRUE, enableBearer |-> FALSE]
    /\ MCP_AUTH_MODE = parseAuthMode(Undef)
    /\ envPublicUrl \in RawPublicUrls
    /\ useSse = TRUE
    /\ \E issuer \in RawIssuers, generic \in {Undef, "https://auth.example.com/realms/test"},
          clientId \in RawClientIds, clientSecret \in RawClientSecrets, audience \in {Undef, "mcp"},
          retries \in RetryCounts :
          config = [Config(parseStringEnv(Undef), configIssuer(issuer, Undef), configIssuer(Undef, generic),
                           parseStringEnv(clientId), parseStringEnv(clientSecret),
                           parseStringEnv(Undef), parseStringEnv(Undef),
                           parseValidationMethod(Undef), retries)
                       EXCEPT !.MCP_OAUTH_AUDIENCE = parseStringEnv(audience)]

OidcInit ==
    /\ OidcInputs
    /\ Fresh
    /\ invocation = NoCall

\* new URL(issuerUrl) inside the try block of discoverWithRetry succeeds, so
\* that client.discovery is called.
IssuerParses == newURL(config.MCP_OAUTH_INTERNAL_ISSUER_URL).ok

\* main(), SSE branch, up to the first call of client.discovery.
MainOidc ==
    /\ pc = "main"
    /\ UNCHANGED <<transport, transports, res, invocation, options, useSse, MCP_AUTH_MODE, envPublicUrl, config, sleeps, discoveredMetadata, resolution,
                   routes, listening, exitCode, now, verification>>
    /\ resolvedMode' = IF useSse THEN resolveAuthMode(options, MCP_AUTH_MODE) ELSE resolvedMode
    /\ IF ~useSse THEN
            /\ pc' = "stdio"
            /\ UNCHANGED <<attempt, candidate, attempts, inflight, requests, authContext, error>>
       ELSE LET built == buildAuthContextOidc(options, MCP_AUTH_MODE, envPublicUrl, config)
            IN  IF ~built.ok THEN
                    /\ Reject(built.error)
                    /\ UNCHANGED <<inflight, requests, authContext>>
                ELSE IF "discover" \in DOMAIN built THEN
                    /\ pc' = "fetching"
                    /\ attempt' = 1
                    /\ candidate' = 0
                    /\ attempts' = <<>>
                    /\ inflight' = IF IssuerParses THEN inflight + 1 ELSE inflight
                    /\ requests' = IF IssuerParses THEN requests + 1 ELSE requests
                    /\ UNCHANGED <<authContext, error>>
                ELSE
                    /\ Return(built.value)
                    /\ UNCHANGED <<inflight, requests, error>>

\* client.discovery resolves: discoverWithRetry returns the configuration
\* and buildOAuthAuthContext runs to its end.
DiscoverySucceedsOidc ==
    /\ pc = "fetching"
    /\ IssuerParses
    /\ \E serverMetadata \in ServerMetadata :
          LET done == finishOAuthAuthContextOidc(config, serverMetadata,
                                                 newURL(Coalesce(envPublicUrl, "http://localhost:3000/mcp")).value)
          IN  /\ discoveredMetadata' = serverMetadata
              /\ inflight' = inflight - 1
              /\ IF done.ok
                 THEN Return(done.value) /\ UNCHANGED error
                 ELSE Reject(done.error) /\ UNCHANGED authContext
    /\ UNCHANGED <<transport, transports, res, invocation, options, useSse, MCP_AUTH_MODE, envPublicUrl, config, resolvedMode, requests, sleeps,
                   resolution, routes, listening, exitCode, now, verification>>

\* An attempt of discoverWithRetry fails, in new URL(issuerUrl) or in
\* client.discovery: the error is kept as lastError, and discovery sleeps
\* before the next attempt or gives up after the last.
DiscoveryFailsOidc ==
    /\ pc = "fetching"
    /\ \E reason \in IF IssuerParses THEN FailureReasons ELSE {"Invalid URL"} :
          IF attempt < config.MCP_OAUTH_DISCOVERY_RETRIES THEN
              /\ attempts' = <<reason>>
              /\ pc' = "sleeping"
              /\ sleeps' = sleeps + 1
              /\ UNCHANGED <<attempt, candidate, error>>
          ELSE
              /\ Reject(OidcDiscoveryError(config.MCP_OAUTH_INTERNAL_ISSUER_URL, reason))
              /\ UNCHANGED sleeps
    /\ inflight' = IF IssuerParses THEN inflight - 1 ELSE inflight
    /\ UNCHANGED <<transport, transports, res, invocation, options, useSse, MCP_AUTH_MODE, envPublicUrl, config, resolvedMode, requests,
                   discoveredMetadata, resolution, authContext, routes, listening, exitCode, now, verification>>

\* The sleep between two attempts ends and the next attempt begins.
SleepEndsOidc ==
    /\ pc = "sleeping"
    /\ pc' = "fetching"
    /\ attempt' = attempt + 1
    /\ inflight' = IF IssuerParses THEN inflight + 1 ELSE inflight
    /\ requests' = IF IssuerParses THEN requests + 1 ELSE requests
    /\ UNCHANGED <<transport, transports, res, invocation, options, useSse, MCP_AUTH_MODE, envPublicUrl, config, resolvedMode, candidate, attempts,
                   sleeps, discoveredMetadata, resolution, authContext, error, routes, listening, exitCode,
                   now, verification>>

\* A request on a protected route of the openid-client build:
\* verifyAccessToken asks the introspection or the userinfo endpoint, the
\* latter with skipSubjectCheck as the expected subject.
OidcVerify ==
    /\ pc = "serving"
    /\ listening
    /\ authContext.middleware.kind = "oidc"
    /\ \E accessToken \in {"abc123"}, outcome \in OidcOutcomes(authContext.middleware.useIntrospection),
          dateNow \in Times :
          /\ now <= dateNow
          /\ now' = dateNow
          /\ verification' =
                [called |-> TRUE,
                 strategy |-> IF authContext.middleware.useIntrospection THEN "introspection" ELSE "userinfo",
                 expectedSubject |-> IF authContext.middleware.useIntrospection
                                     THEN "none" ELSE "skipSubjectCheck",
                 accessToken |-> accessToken, outcome |-> outcome, dateNow |-> dateNow,
                 result |-> oidcVerifyAccessToken(authContext.middleware.useIntrospection, accessToken,
                                                  outcome, dateNow)]
    /\ res' = NoResponse
    /\ UNCHANGED <<transport, transports, invocation, options, useSse, MCP_AUTH_MODE, envPublicUrl, config, pc, resolvedMode, attempt, candidate,
                   attempts, inflight, requests, sleeps, discoveredMetadata, resolution, authContext, error,
                   routes, listening, exitCode>>

OidcNext ==
    \/ MainOidc
    \/ DiscoverySucceedsOidc
    \/ DiscoveryFailsOidc
    \/ SleepEndsOidc
    \/ Listen
    \/ MainCatch
    \/ OidcVerify

OidcSpec == OidcInit /\ [][OidcNext]_vars

-----------------------------------------------------------------------------
(* Route handlers *)

MaxSseConnections == 2

\* The clients that send requests to the server.
Clients == {"first", "second"}

\* express runs the handler of a route once every middleware registered in
\* front of it has passed the request on; the auth middleware passes on only
\* a request whose token its verifier accepted.
Admitted(method, path) ==
    \E route \in routes :
        /\ route.method = method
        /\ route.path = path
        /\ route.protected => (verification.called /\ verification.result.ok /\ res = NoResponse)

\* A mutant of HandleLegacySse: the slot keeps the first transport.
HandleLegacySseKeepsFirst ==
    /\ pc = "serving"
    /\ listening
    /\ Admitted("GET", "/sse")
    /\ Len(transports) < MaxSseConnections
    /\ \E client \in Clients :
          /\ transports' = Append(transports, client)
          /\ transport' = IF transport = NoTransport THEN Len(transports) + 1 ELSE transport
          /\ res' = [handler |-> "handleLegacySse", path |-> "/sse", client |-> client,
                     transport |-> Len(transports) + 1]
    /\ UNCHANGED <<invocation, options, useSse, MCP_AUTH_MODE, envPublicUrl, config, pc, resolvedMode, attempt,
                   candidate, attempts, inflight, requests, sleeps, discoveredMetadata, resolution,
                   authContext, error, routes, listening, exitCode, now, verification>>

\* GET /sse: a new SSE transport is created for the connection and stored in
\* the transport slot.
HandleLegacySse ==
    /\ pc = "serving"
    /\ listening
    /\ Admitted("GET", "/sse")
    /\ Len(transports) < MaxSseConnections
    /\ \E client \in Clients :
          /\ transports' = Append(transports, client)
          /\ transport' = Len(transports) + 1
          /\ res' = [handler |-> "handleLegacySse", path |-> "/sse", client |-> client,
                     transport |-> Len(transports) + 1]
    /\ UNCHANGED <<invocation, options, useSse, MCP_AUTH_MODE, envPublicUrl, config, pc, resolvedMode, attempt,
                   candidate, attempts, inflight, requests, sleeps, discoveredMetadata, resolution,
                   authContext, error, routes, listening, exitCode, now, verification>>

\* Any method on / or /mcp: handleStreamable is called; its sessions are not
\* modelled.
HandleStreamable ==
    /\ pc = "serving"
    /\ listening
    /\ \E path \in {"/", "/mcp"}, client \in Clients :
          /\ Admitted("ALL", path)
          /\ res' = [handler |-> "handleStreamable", path |-> path, client |-> client]
    /\ UNCHANGED <<transport, transports, invocation, options, useSse, MCP_AUTH_MODE, envPublicUrl, config, pc,
                   resolvedMode, attempt, candidate, attempts, inflight, requests, sleeps,
                   discoveredMetadata, resolution, authContext, error, routes, listening, exitCode, now,
                   verification>>

\* POST /messages: the message goes to the transport in the slot, or the
\* request is answered with status 500 while the slot is empty.
HandleMessages ==
    /\ pc = "serving"
    /\ listening
    /\ Admitted("POST", "/messages")
    /\ \E client \in Clients :
          res' = IF transport # NoTransport
                 THEN [handler |-> "handleMessages", path |-> "/messages", client |-> client,
                       status |-> "handlePostMessage", transport |-> transport]
                 ELSE [handler |-> "handleMessages", path |-> "/messages", client |-> client,
                       status |-> "500 Transport not initialized", transport |-> NoTransport]
    /\ UNCHANGED <<transport, transports, invocation, options, useSse, MCP_AUTH_MODE, envPublicUrl, config, pc,
                   resolvedMode, attempt, candidate, attempts, inflight, requests, sleeps,
                   discoveredMetadata, resolution, authContext, error, routes, listening, exitCode, now,
                   verification>>

\* A server of every mode: no authentication, the static bearer token, and
\* OAuth with either validation method.
RequestInputs ==
    /\ options \in { [enableOauth |-> FALSE, enableBearer |-> FALSE],
                      [enableOauth |-> FALSE, enableBearer |-> TRUE],
                      [enableOauth |-> TRUE, enableBearer |-> FALSE] }
    /\ MCP_AUTH_MODE = parseAuthMode(Undef)
    /\ envPublicUrl = Undef
    /\ useSse = TRUE
    /\ \E method \in {"introspection", "jwt"} :
          config = Config(parseStringEnv("abc123"), configIssuer("http://keycloak:8080/realms/test", Undef),
                          configIssuer(Undef, Undef), parseStringEnv("test-client"),
                          parseStringEnv("test-secret"), parseStringEnv(Undef), parseStringEnv(Undef),
                          parseValidationMethod(method), MaxRetries)

RequestInit ==
    /\ RequestInputs
    /\ Fresh
    /\ invocation = NoCall

RequestNext ==
    \/ Main
    \/ FetchSucceeds
    \/ FetchFails
    \/ SleepEnds
    \/ Listen
    \/ MainCatch
    \/ BearerVerify
    \/ IntrospectionVerify
    \/ JwtVerify
    \/ HandleLegacySse
    \/ HandleStreamable
    \/ HandleMessages

RequestSpec == RequestInit /\ [][RequestNext]_vars

-----------------------------------------------------------------------------
(* Start-up with fair scheduling *)

\* OAuth with the default settings and every retry count.
DiscoveryInit ==
    /\ DiscoveryInputs
    /\ Fresh
    /\ invocation = NoCall

\* main() up to the listening server or the exit.
DiscoveryNext ==
    \/ Main
    \/ FetchSucceeds
    \/ FetchFails
    \/ SleepEnds
    \/ Listen
    \/ MainCatch

\* Every discovery request is answered or fails, and every sleep ends.
DiscoverySpec ==
    /\ DiscoveryInit
    /\ [][DiscoveryNext]_vars
    /\ WF_vars(FetchSucceeds \/ FetchFails)
    /\ WF_vars(SleepEnds)

-----------------------------------------------------------------------------
(* Properties *)

\* buildAuthContext has run at least up to its first await.
Started == pc # "main" /\ useSse

BearerTokenMissing == config.MCP_BEARER_TOKEN = Undef \/ config.MCP_BEARER_TOKEN = ""

IssuerMissing ==
    config.MCP_OAUTH_INTERNAL_ISSUER_URL = Undef \/ config.MCP_OAUTH_INTERNAL_ISSUER_URL = ""

\* resolveValidationMethod was called with method auto.
AutoResolved == resolution.called /\ resolution.method = "auto"

\* C1: whenever enableOauth is true the resolved mode is oauth, whatever
\* enableBearer (true, false, absent) and the fallback MCP_AUTH_MODE are.
C1_OauthFlagWins ==
    (Started /\ Truthy(options, "enableOauth")) => resolvedMode = "oauth"

C1_Witness ==
    /\ Started /\ resolvedMode = "oauth"
    /\ Truthy(options, "enableOauth") /\ Truthy(options, "enableBearer")
    /\ MCP_AUTH_MODE = "bearer"

\* C2: with enableOauth false or absent, the resolved mode is bearer when
\* enableBearer is true, whatever the fallback, and is exactly the fallback
\* MCP_AUTH_MODE when neither flag is set.
C2_BearerFlagThenFallback ==
    (Started /\ ~Truthy(options, "enableOauth")) =>
        IF Truthy(options, "enableBearer")
        THEN resolvedMode = "bearer"
        ELSE resolvedMode = MCP_AUTH_MODE

C2_Witness ==
    /\ Started /\ resolvedMode = "bearer"
    /\ "enableOauth" \in DOMAIN options /\ ~options.enableOauth
    /\ Truthy(options, "enableBearer")
    /\ MCP_AUTH_MODE = "oauth"

\* C3: in bearer mode with configured token T, verifyAccessToken(x) succeeds
\* exactly when x = T; on success it returns token x, clientId "local-user",
\* scopes ["mcp:tools"] and expiresAt = current epoch seconds + 86400; every
\* other x is rejected with InvalidTokenError.
C3_BearerVerifier ==
    (verification.called /\ verification.strategy = "bearer") =>
        LET T == config.MCP_BEARER_TOKEN
            x == verification.accessToken
            r == verification.result
        IN  /\ T # Undef /\ T # ""
            /\ r.ok <=> x = T
            /\ r.ok => r.value = [token |-> x, clientId |-> "local-user",
                                  scopes |-> <<"mcp:tools">>,
                                  expiresAt |-> (now \div 1000) + 86400]
            /\ ~r.ok => r.error.name = "InvalidTokenError"

C3_Witness ==
    /\ verification.called
    /\ verification.strategy = "bearer"
    /\ verification.result.ok
    /\ verification.accessToken = "abc123"
    /\ now = 2 * TickMs
    /\ verification.result.value.expiresAt = 86401

\* C4: buildAuthContext in bearer mode with the static token undefined or
\* empty always fails with the error that names MCP_BEARER_TOKEN (or
\* BEARER_TOKEN), and no context or middleware is produced.
C4_BearerWithoutTokenNamesVariable ==
    (Started /\ resolvedMode = "bearer" /\ BearerTokenMissing) =>
        /\ error = Error("MCP_BEARER_TOKEN (or BEARER_TOKEN) is required when auth mode is bearer.")
        /\ authContext = NoContext

\* C4, where the public URL parses: the claim holds.
C4_HoldsWhenPublicUrlParses ==
    (Started /\ resolvedMode = "bearer" /\ BearerTokenMissing /\ mcpPublicUrlOf(envPublicUrl).ok) =>
        /\ error = Error("MCP_BEARER_TOKEN (or BEARER_TOKEN) is required when auth mode is bearer.")
        /\ authContext = NoContext

\* C5: buildAuthContext in oauth mode with the internal issuer URL undefined
\* or empty always fails with the error that names
\* MCP_OAUTH_INTERNAL_ISSUER_URL, and no discovery request is issued before.
C5_OauthWithoutIssuerNamesVariable ==
    (Started /\ resolvedMode = "oauth" /\ IssuerMissing) =>
        /\ error = Error("MCP_OAUTH_INTERNAL_ISSUER_URL (or MCP_OAUTH_ISSUER_URL) is required when auth mode is oauth.")
        /\ authContext = NoContext
        /\ requests = 0

\* C5, where the public URL parses: the claim holds.
C5_HoldsWhenPublicUrlParses ==
    (Started /\ resolvedMode = "oauth" /\ IssuerMissing /\ mcpPublicUrlOf(envPublicUrl).ok) =>
        /\ error = Error("MCP_OAUTH_INTERNAL_ISSUER_URL (or MCP_OAUTH_ISSUER_URL) is required when auth mode is oauth.")
        /\ authContext = NoContext
        /\ requests = 0

\* C6: in SSE mode no route is registered and the listener is not started
\* before buildAuthContext has returned a context; when buildAuthContext
\* fails the listener is never started and the process exits with status 1.
C6_NoListenerWithoutContext ==
    /\ (routes # {} \/ listening) => (authContext # NoContext /\ error = NoError)
    /\ error # NoError =>
          /\ routes = {} /\ ~listening /\ authContext = NoContext
          /\ \/ pc = "rejected" /\ ENABLED MainCatch
             \/ pc = "exited" /\ exitCode = 1
    /\ pc = "exited" => (error # NoError /\ exitCode = 1)

C6_Witness ==
    /\ pc = "exited" /\ exitCode = 1 /\ ~listening /\ routes = {}
    /\ error.message = "Unable to load OAuth metadata from issuer"
    /\ Len(error.tried) = 2 * NumCandidates

\* C7: with method auto, when client credentials, an introspection endpoint
\* and a JWKS URI are all available, the resolved method is introspection.
C7_AutoPrefersIntrospection ==
    (AutoResolved /\ resolution.hasClientCredentials
        /\ resolution.hasIntrospectionEndpoint /\ resolution.hasJwksUri) =>
        /\ resolution.result = Ok("introspection")
        /\ "validationMethod" \in DOMAIN authContext
        /\ authContext.validationMethod = "introspection"

C7_Witness ==
    /\ AutoResolved
    /\ config.MCP_OAUTH_CLIENT_ID = "test-client" /\ config.MCP_OAUTH_CLIENT_SECRET = "test-secret"
    /\ "introspection_endpoint" \in DOMAIN discoveredMetadata
    /\ Prop(discoveredMetadata, "jwks_uri") \in AbsoluteUrls
    /\ authContext.validationMethod = "introspection"
    /\ authContext.middleware.kind = "introspection"

C9_AutoFailureMessagesDiffer ==
    (AutoResolved /\ ~resolution.hasJwksUri
        /\ ~(resolution.hasClientCredentials /\ resolution.hasIntrospectionEndpoint)) =>
        /\ ~resolution.result.ok
        /\ error = resolution.result.error
        /\ authContext = NoContext
        /\ \A credentials \in BOOLEAN, endpoint \in BOOLEAN :
              (credentials # resolution.hasClientCredentials /\ ~(credentials /\ endpoint)) =>
                  resolveValidationMethod("auto", credentials, endpoint, FALSE).error.message
                      # error.message

C9_Witness ==
    /\ AutoResolved /\ ~resolution.hasJwksUri
    /\ resolution.hasClientCredentials /\ ~resolution.hasIntrospectionEndpoint
    /\ pc = "exited"
    /\ error = AutoFailedWithCredentials

\* Both client credentials are set in the configuration.
CredentialsProvided ==
    /\ config.MCP_OAUTH_CLIENT_ID # Undef /\ config.MCP_OAUTH_CLIENT_ID # ""
    /\ config.MCP_OAUTH_CLIENT_SECRET # Undef /\ config.MCP_OAUTH_CLIENT_SECRET # ""

\* An introspection endpoint is set as an override or was discovered.
IntrospectionEndpointKnown ==
    \/ config.MCP_OAUTH_INTROSPECTION_URL \notin {Undef, ""}
    \/ Prop(discoveredMetadata, "introspection_endpoint") \notin {Undef, ""}

Forced(method) == resolution.called /\ resolution.method = method

\* C11: with the method forced to introspection, resolution succeeds, with
\* introspection, exactly when client credentials and an introspection
\* endpoint are both available; otherwise construction fails with the message
\* about the credentials when they are missing, else with the message about
\* the endpoint; JWT is never chosen, whether or not a JWKS URI is available.
C11_ForcedIntrospection ==
    Forced("introspection") =>
        /\ resolution.result.ok <=>
              (resolution.hasClientCredentials /\ resolution.hasIntrospectionEndpoint)
        /\ resolution.result.ok =>
              /\ resolution.result.value = "introspection"
              /\ authContext # NoContext
              /\ authContext.validationMethod = "introspection"
              /\ authContext.middleware.kind = "introspection"
        /\ ~resolution.result.ok => (authContext = NoContext /\ error = resolution.result.error)
        /\ ~resolution.hasClientCredentials =>
              error = Error("MCP_OAUTH_CLIENT_ID and MCP_OAUTH_CLIENT_SECRET are required for introspection validation.")
        /\ (resolution.hasClientCredentials /\ ~resolution.hasIntrospectionEndpoint) =>
              error = Error("Introspection endpoint not available. Set MCP_OAUTH_INTROSPECTION_URL or use jwt validation.")

C11_Witness ==
    /\ Forced("introspection")
    /\ ~resolution.hasClientCredentials /\ ~resolution.hasIntrospectionEndpoint
    /\ resolution.hasJwksUri
    /\ pc = "exited"
    /\ error = Error("MCP_OAUTH_CLIENT_ID and MCP_OAUTH_CLIENT_SECRET are required for introspection validation.")

\* C12: with the method forced to jwt, resolution returns jwt whenever a JWKS
\* URI is available (override or discovered), whatever the credentials and
\* the introspection endpoint are; otherwise construction fails with the
\* message naming MCP_OAUTH_JWKS_URL; introspection is never chosen.
C12_ForcedJwt ==
    Forced("jwt") =>
        /\ resolution.hasJwksUri <=>
              (config.MCP_OAUTH_JWKS_URL \notin {Undef, ""}
                  \/ Prop(discoveredMetadata, "jwks_uri") \notin {Undef, ""})
        /\ resolution.hasJwksUri => resolution.result = Ok("jwt")
        /\ authContext # NoContext =>
              (authContext.validationMethod = "jwt" /\ authContext.middleware.kind = "jwt")
        /\ ~resolution.hasJwksUri =>
              /\ authContext = NoContext
              /\ error = Error("JWKS URI not available. Set MCP_OAUTH_JWKS_URL or ensure issuer metadata includes jwks_uri.")

C12_Witness ==
    /\ Forced("jwt")
    /\ ~resolution.hasJwksUri
    /\ resolution.hasClientCredentials /\ resolution.hasIntrospectionEndpoint
    /\ pc = "exited"
    /\ error = Error("JWKS URI not available. Set MCP_OAUTH_JWKS_URL or ensure issuer metadata includes jwks_uri.")

\* C12, the successful case: a context with a JWT verifier is built.
C12_WitnessJwt ==
    /\ Forced("jwt") /\ resolution.hasClientCredentials /\ resolution.hasIntrospectionEndpoint
    /\ authContext # NoContext /\ authContext.validationMethod = "jwt"

\* The strings found in `aud` at any depth.
RECURSIVE Leaves(_)
Leaves(aud) ==
    IF aud.type = "string" THEN {aud.string}
    ELSE IF aud.type = "array" THEN UNION { Leaves(aud.items[i]) : i \in 1..Len(aud.items) }
    ELSE {}

DiscoveryFailed == error.message = "Unable to load OAuth metadata from issuer"

\* The rounds discovery runs for a configured retry count.
Rounds == IF config.MCP_OAUTH_DISCOVERY_RETRIES < 1 THEN 0 ELSE config.MCP_OAUTH_DISCOVERY_RETRIES

\* C14: when every candidate fails (non-2xx status or network error) in
\* every round, discovery configured with N rounds fails only after exactly
\* N rounds, having requested every candidate URL once in each round, and
\* the error lists every attempted URL, in request order, with its reason.
C14_DiscoveryFailsAfterAllRounds ==
    /\ DiscoveryFailed =>
          /\ requests = Rounds * NumCandidates
          /\ inflight = 0
          /\ error.issuer = config.MCP_OAUTH_INTERNAL_ISSUER_URL
          /\ Len(error.tried) = requests
          /\ \A i \in 1..Len(error.tried) :
                /\ error.tried[i].url = buildWellKnownCandidates(Issuer)[((i - 1) % NumCandidates) + 1]
                /\ error.tried[i].reason \in FailureReasons \cup {UnparseableBody}
    /\ pc \in {"fetching", "sleeping"} =>
          /\ error = NoError
          /\ attempt \in 1..Rounds
          /\ requests = (attempt - 1) * NumCandidates + candidate
          /\ Len(attempts) = requests - inflight

C14_Witness ==
    /\ DiscoveryFailed
    /\ config.MCP_OAUTH_DISCOVERY_RETRIES = MaxRetries
    /\ requests = MaxRetries * NumCandidates
    /\ Len(error.tried) = MaxRetries * NumCandidates
    /\ error.tried[1].reason = "HTTP 404"
    /\ error.tried[Len(error.tried)].reason = "TypeError: fetch failed"
    /\ pc = "exited"

\* C15: buildAuthContext with resolved mode none returns a context with mode
\* none and a null middleware, without OAuth metadata and without validation
\* method, and issues no network request.
C15_NoneModeContext ==
    (Started /\ resolvedMode = "none") =>
        /\ authContext = [mode |-> "none", middleware |-> NullMiddleware]
        /\ error = NoError
        /\ requests = 0

\* C15, where the public URL parses: the claim holds.
C15_HoldsWhenPublicUrlParses ==
    (Started /\ resolvedMode = "none" /\ mcpPublicUrlOf(envPublicUrl).ok) =>
        /\ authContext = [mode |-> "none", middleware |-> NullMiddleware]
        /\ DOMAIN authContext = {"mode", "middleware"}
        /\ error = NoError
        /\ requests = 0 /\ inflight = 0 /\ sleeps = 0

\* C16: whatever the strategy (static bearer, JWT, introspection), a
\* verifyAccessToken call that does not succeed rejects with an
\* InvalidTokenError: a failed request, a status outside 2xx, a body that
\* is no JSON object and any error raised by the verification library all
\* end as InvalidTokenError, and none of them lets the call succeed.
C16_FailuresAreInvalidTokenErrors ==
    verification.called =>
        /\ verification.strategy = authContext.middleware.kind
        /\ ~verification.result.ok => verification.result.error.name = "InvalidTokenError"
        /\ verification.strategy = "introspection" =>
              LET response == verification.response
              IN  (response.kind = "rejected" \/ ~responseOk(response) \/ response.json # "object")
                      => ~verification.result.ok
        /\ verification.strategy = "jwt" =>
              (verification.outcome.kind = "rejected" => ~verification.result.ok)

C16_Witness ==
    /\ verification.called
    /\ verification.strategy = "introspection"
    /\ verification.response.kind = "rejected"
    /\ verification.response.error.name = "TypeError"
    /\ verification.result = Throw(InvalidTokenError("Token introspection failed"))

\* C16, the JWT strategy: a rejection that is no Error object ends as
\* InvalidTokenError too.
C16_WitnessJwt ==
    /\ verification.called
    /\ verification.strategy = "jwt"
    /\ verification.outcome.kind = "rejected"
    /\ ~verification.outcome.error.isError
    /\ verification.result = Throw(InvalidTokenError("Token validation failed"))

\* The audience is accepted: none is expected, or the expected one is the
\* string `aud` or occurs in the array `aud`.
AudienceAccepted(aud, expected) == expected \in {Undef, ""} \/ expected \in Leaves(aud)

\* C17: the introspection verifier accepts a token only if the response has
\* a 2xx status, its `active` field is the boolean true (a truthy value is
\* not enough) and its `aud` matches the expected audience; when any of the
\* three fails the call rejects with InvalidTokenError.
C17_IntrospectionAcceptance ==
    (verification.called /\ verification.strategy = "introspection") =>
        LET response == verification.response
            accepted ==
                /\ response.kind = "response"
                /\ response.status \in 200..299
                /\ response.json = "object"
                /\ "active" \in DOMAIN response.data
                /\ response.data.active = JsBoolean(TRUE)
                /\ AudienceAccepted(Field(response.data, "aud"), config.MCP_OAUTH_AUDIENCE)
        IN  /\ verification.result.ok <=> accepted
            /\ ~verification.result.ok => verification.result.error.name = "InvalidTokenError"

C17_Witness ==
    /\ verification.called /\ verification.strategy = "introspection"
    /\ config.MCP_OAUTH_AUDIENCE = "mcp"
    /\ verification.response.kind = "response" /\ verification.response.status = 200
    /\ verification.response.json = "object"
    /\ Field(verification.response.data, "active") = JsBoolean(TRUE)
    /\ Field(verification.response.data, "aud") = JsArray(<<JsString("other"), JsString("mcp")>>)
    /\ verification.result.ok
    /\ verification.result.value.clientId = "svc"

\* C17, a truthy `active` that is not true: rejected.
C17_WitnessTruthy ==
    /\ verification.called /\ verification.strategy = "introspection"
    /\ verification.response.kind = "response" /\ verification.response.status = 200
    /\ verification.response.json = "object"
    /\ Field(verification.response.data, "active") = JsString("true")
    /\ verification.result = Throw(InvalidTokenError("Token is not active"))

\* buildOAuthAuthContext has returned a context, which carries the metadata
\* the rewriter returned.
Rewritten == authContext # NoContext /\ "oauthMetadata" \in DOMAIN authContext

\* A public issuer override is set.
PublicIssuerSet == config.MCP_OAUTH_PUBLIC_ISSUER_URL \notin {Undef, ""}

\* The public issuer as a URL object.
PublicIssuer == newURL(config.MCP_OAUTH_PUBLIC_ISSUER_URL).value

\* Field f of the rewritten metadata is field f of the discovered metadata
\* with the scheme and the authority of the public issuer, and the same
\* path, query and fragment.
MovedToPublicIssuer(f) ==
    /\ f \in DOMAIN authContext.oauthMetadata
    /\ authContext.oauthMetadata[f] \in AbsoluteUrls
    /\ newURL(authContext.oauthMetadata[f]).value =
          [newURL(discoveredMetadata[f]).value EXCEPT !.origin = PublicIssuer.origin]

\* C18: without a public issuer override the rewriter returns the metadata
\* unchanged; with one, every absolute endpoint URL of the metadata has its
\* scheme and authority replaced by the public issuer's while its path,
\* query and fragment are kept, the issuer field becomes the public issuer
\* URL with a trailing slash, and absent endpoint fields stay absent.
C18_RewriterMovesEveryEndpoint ==
    Rewritten =>
        IF ~PublicIssuerSet THEN authContext.oauthMetadata = discoveredMetadata
        ELSE /\ \A f \in EndpointFields \cap DOMAIN discoveredMetadata :
                   discoveredMetadata[f] \in AbsoluteUrls => MovedToPublicIssuer(f)
             /\ authContext.oauthMetadata.issuer = href(ensureTrailingSlash(PublicIssuer))
             /\ \A f \in EndpointFields \ DOMAIN discoveredMetadata :
                   f \notin DOMAIN authContext.oauthMetadata

\* The pathname of an endpoint starts with "//".
NetworkPath(value) == value \in AbsoluteUrls /\ Len(newURL(value).value.path) >= 2
                        /\ newURL(value).value.path[1] = ""

\* C18, where every endpoint that is present is empty or an absolute URL
\* whose pathname does not start with "//": the claim holds.
C18_HoldsWhenEveryEndpointResolves ==
    (Rewritten /\ \A f \in EndpointFields \cap DOMAIN discoveredMetadata :
                     /\ discoveredMetadata[f] \in AbsoluteUrls \cup {""}
                     /\ ~NetworkPath(discoveredMetadata[f])) =>
        IF ~PublicIssuerSet THEN authContext.oauthMetadata = discoveredMetadata
        ELSE /\ \A f \in EndpointFields \cap DOMAIN discoveredMetadata :
                   discoveredMetadata[f] \in AbsoluteUrls => MovedToPublicIssuer(f)
             /\ authContext.oauthMetadata.issuer = href(ensureTrailingSlash(PublicIssuer))
             /\ authContext.oauthMetadata.issuer = "https://auth.example.com/realms/test/"
             /\ \A f \in EndpointFields \ DOMAIN discoveredMetadata :
                   f \notin DOMAIN authContext.oauthMetadata

\* An endpoint of the discovered metadata that new URL rejects.
Unparseable(f) ==
    /\ f \in EndpointFields \cap DOMAIN discoveredMetadata
    /\ discoveredMetadata[f] \notin AbsoluteUrls \cup {""}

\* C19: the rewriter never throws, and when an endpoint URL of the metadata
\* fails to parse only that field keeps its original value, while every
\* other endpoint that parses and the issuer field are still rewritten to
\* the public issuer.
C19_RewriterFallsBackPerField ==
    (Rewritten /\ PublicIssuerSet /\ \E f \in EndpointFields : Unparseable(f)) =>
        /\ authContext.oauthMetadata.issuer = href(ensureTrailingSlash(PublicIssuer))
        /\ \A f \in EndpointFields \cap DOMAIN discoveredMetadata :
              IF discoveredMetadata[f] \in AbsoluteUrls
              THEN authContext.oauthMetadata[f] =
                       remap(discoveredMetadata[f], ensureTrailingSlash(PublicIssuer)).value
              ELSE authContext.oauthMetadata[f] = discoveredMetadata[f]

\* C19, as the code behaves: the rewriter never throws, and when an
\* endpoint fails to parse the whole discovered metadata is returned as it
\* was, issuer included.
C19_FallsBackAsAWhole ==
    /\ (Rewritten /\ PublicIssuerSet /\ \E f \in EndpointFields : Unparseable(f)) =>
          authContext.oauthMetadata = discoveredMetadata
    /\ (resolution.called /\ resolution.result.ok /\ authContext = NoContext) =>
          (resolution.result.value = "jwt" /\ error = TypeError("Invalid URL"))

\* C18, a pathname that starts with "//": the endpoint leaves the public
\* issuer's authority.
C18_NetworkPathEscapes ==
    /\ Rewritten /\ PublicIssuerSet
    /\ Prop(discoveredMetadata, "jwks_uri") = "http://keycloak:8080//evil.example/certs"
    /\ authContext.oauthMetadata.jwks_uri = "https://evil.example/certs"
    /\ authContext.oauthMetadata.issuer = "https://auth.example.com/realms/test/"

\* C18, the regular case: the query and the fragment survive the rewriting.
C18_QueryAndFragmentKept ==
    /\ Rewritten /\ PublicIssuerSet
    /\ authContext.oauthMetadata.userinfo_endpoint =
          "https://auth.example.com/realms/test/protocol/openid-connect/userinfo?schema=openid#claims"
    /\ "introspection_endpoint" \notin DOMAIN authContext.oauthMetadata

\* The fallback mode setting is none of the three modes.
UnrecognizedFallback == MCP_AUTH_MODE \notin {"none", "bearer", "oauth"}

\* C20: when neither flag is set and the fallback mode setting is not one of
\* none, bearer and oauth, resolveAuthMode returns none.
C20_UnrecognizedFallbackIsNone ==
    (Started /\ ~Truthy(options, "enableOauth") /\ ~Truthy(options, "enableBearer")
        /\ UnrecognizedFallback) => resolvedMode = "none"

\* C20, as the code behaves: resolveAuthMode returns the unrecognized
\* setting itself, and buildAuthContext then builds the context of mode none.
C20_UnrecognizedFallbackIsReturned ==
    (Started /\ ~Truthy(options, "enableOauth") /\ ~Truthy(options, "enableBearer")
        /\ UnrecognizedFallback) =>
        /\ resolvedMode = MCP_AUTH_MODE
        /\ mcpPublicUrlOf(envPublicUrl).ok =>
              authContext = [mode |-> "none", middleware |-> NullMiddleware]

-----------------------------------------------------------------------------
(* Token verification leaves the context alone *)

\* The mode, the validation method, the verifier and the metadata of the
\* context that buildAuthContext returned, as the server holds them.
ContextReturned == pc \in {"built", "serving"}

C21_WitnessAccepted ==
    /\ AutoResolved
    /\ pc = "serving"
    /\ verification # NoVerification
    /\ verification.result.ok
    /\ authContext.validationMethod = resolution.result.value

-----------------------------------------------------------------------------
(* The introspection-only build: client credentials *)

ClientIdMissing == config.MCP_OAUTH_CLIENT_ID \in {Undef, ""}

ClientSecretMissing == config.MCP_OAUTH_CLIENT_SECRET \in {Undef, ""}

\* What C22 says of a construction in oauth mode with an issuer configured.
CredentialsRequired ==
    /\ ClientIdMissing =>
          /\ error = Error("MCP_OAUTH_CLIENT_ID is required when auth mode is oauth.")
          /\ authContext = NoContext
          /\ requests = 0
    /\ (~ClientIdMissing /\ ClientSecretMissing) =>
          /\ error = Error("MCP_OAUTH_CLIENT_SECRET is required when auth mode is oauth.")
          /\ authContext = NoContext
          /\ requests = 0

\* C22: in the introspection-only build, oauth mode with an issuer URL but
\* without a client id fails with the error that names MCP_OAUTH_CLIENT_ID,
\* with a client id but without a secret with the error that names
\* MCP_OAUTH_CLIENT_SECRET, and no discovery request is issued before either.
C22_ClientCredentialsRequired ==
    (Started /\ resolvedMode = "oauth" /\ ~IssuerMissing) => CredentialsRequired

\* C22, where the public URL parses: the claim holds.
C22_HoldsWhenPublicUrlParses ==
    (Started /\ resolvedMode = "oauth" /\ ~IssuerMissing /\ mcpPublicUrlOf(envPublicUrl).ok)
        => CredentialsRequired

\* The construction failed for the missing secret, the client id being set.
C22_WitnessSecret ==
    /\ Started /\ resolvedMode = "oauth" /\ ~IssuerMissing
    /\ ~ClientIdMissing /\ ClientSecretMissing
    /\ error = Error("MCP_OAUTH_CLIENT_SECRET is required when auth mode is oauth.")

\* The construction failed for the missing client id.
C22_WitnessClientId ==
    /\ Started /\ resolvedMode = "oauth" /\ ~IssuerMissing
    /\ ClientIdMissing
    /\ error = Error("MCP_OAUTH_CLIENT_ID is required when auth mode is oauth.")

-----------------------------------------------------------------------------
(* Discovery: order of the requests, sleeps, outstanding requests *)

\* The four documents of the issuer http://keycloak:8080/realms/test in the
\* order C23 gives.
FixedOrder ==
    << Url("http://keycloak:8080", <<"realms", "test", ".well-known", "openid-configuration">>, FALSE, "", ""),
       Url("http://keycloak:8080", <<"realms", "test", ".well-known", "oauth-authorization-server">>, FALSE, "", ""),
       Url("http://keycloak:8080", <<".well-known", "openid-configuration">>, FALSE, "", ""),
       Url("http://keycloak:8080", <<".well-known", "oauth-authorization-server">>, FALSE, "", "") >>

Discovering == pc \in {"fetching", "sleeping"}

\* The requests that have failed so far went to the four documents in the
\* fixed order, round after round, and the outstanding request is the next.
RequestsInFixedOrder ==
    Discovering =>
        /\ \A i \in 1..Len(attempts) : attempts[i].url = FixedOrder[((i - 1) % NumCandidates) + 1]
        /\ pc = "fetching" =>
              /\ requests = Len(attempts) + 1
              /\ candidate = (Len(attempts) % NumCandidates) + 1
              /\ buildWellKnownCandidates(Issuer)[candidate] = FixedOrder[candidate]

\* The step that receives a 2xx response ends discovery at once.
FirstSuccessReturns ==
    discoveredMetadata' # discoveredMetadata =>
        /\ pc = "fetching"
        /\ pc' \in {"built", "rejected"}
        /\ discoveredMetadata = NoMetadata
        /\ discoveredMetadata' \in DiscoveryDocuments
        /\ requests' = requests
        /\ sleeps' = sleeps
        /\ inflight' = 0

\* After the 2xx response there is no request, no round and no sleep.
NothingAfterSuccess ==
    discoveredMetadata # NoMetadata =>
        /\ requests' = requests
        /\ sleeps' = sleeps
        /\ inflight' = 0
        /\ discoveredMetadata' = discoveredMetadata
        /\ pc' \notin {"fetching", "sleeping"}

\* C23: within a round the candidates are requested in the fixed order
\* (issuer-scoped openid-configuration, issuer-scoped
\* oauth-authorization-server, root openid-configuration, root
\* oauth-authorization-server); the document of the first 2xx response is
\* what discovery returns, and no request, round or sleep follows it.
C23_FixedOrderFirstSuccess ==
    /\ []RequestsInFixedOrder
    /\ [][FirstSuccessReturns /\ NothingAfterSuccess]_vars

\* Discovery returned on the second candidate of the second round.
C23_Witness ==
    /\ discoveredMetadata # NoMetadata
    /\ requests = NumCandidates + 2
    /\ sleeps = 1
    /\ pc = "serving"

\* A 2xx response whose body was not JSON has been logged as a failed
\* request and discovery has gone on to the next candidate.
C23_UnparseableBodySkipped ==
    /\ pc = "fetching"
    /\ Len(attempts) >= 1
    /\ attempts[1].reason = UnparseableBody
    /\ candidate = 2

\* The sleeps of discovery so far stand between consecutive rounds: during
\* round k there have been k - 1, the sleep after round k is the k-th and
\* follows the failure of the round's last candidate, and round N has none.
SleepsBetweenRounds ==
    /\ pc = "fetching" => sleeps = attempt - 1
    /\ pc = "sleeping" =>
          /\ sleeps = attempt
          /\ attempt < config.MCP_OAUTH_DISCOVERY_RETRIES
          /\ candidate = NumCandidates
          /\ Len(attempts) = attempt * NumCandidates
    /\ DiscoveryFailed =>
          sleeps = IF config.MCP_OAUTH_DISCOVERY_RETRIES >= 1
                   THEN config.MCP_OAUTH_DISCOVERY_RETRIES - 1 ELSE 0

\* A sleep begins only where a round has failed as a whole and another round
\* follows, and it is one sleep; a step from one candidate to the next or out
\* of the last round does not sleep.
SleepOnlyAfterFailedRound ==
    sleeps' # sleeps =>
        /\ sleeps' = sleeps + 1
        /\ pc = "fetching" /\ pc' = "sleeping"
        /\ candidate = NumCandidates
        /\ attempt < config.MCP_OAUTH_DISCOVERY_RETRIES

\* C24: discovery sleeps only between consecutive rounds: once after each
\* failed round k < N, never after round N, never between the candidates of
\* a round; a discovery that fails with N >= 1 has slept N - 1 times.
C24_SleepsBetweenRoundsOnly ==
    /\ []SleepsBetweenRounds
    /\ [][SleepOnlyAfterFailedRound]_vars

\* A discovery of more than one round has failed.
C24_Witness ==
    /\ DiscoveryFailed
    /\ config.MCP_OAUTH_DISCOVERY_RETRIES >= 2
    /\ sleeps = config.MCP_OAUTH_DISCOVERY_RETRIES - 1
    /\ requests = config.MCP_OAUTH_DISCOVERY_RETRIES * NumCandidates

\* C25: during discovery at most one HTTP request is outstanding: one is
\* outstanding exactly while discovery waits for a response, none during a
\* sleep, before discovery or after it, and a request is sent only when none
\* is outstanding or in the step that takes the answer of the previous one.
C25_OneRequestAtATime ==
    /\ inflight \in {0, 1}
    /\ inflight = 1 <=> pc = "fetching"
    /\ pc = "fetching" => requests = (attempt - 1) * NumCandidates + candidate

\* The second round has its third request outstanding.
C25_Witness ==
    /\ pc = "fetching"
    /\ attempt = 2
    /\ candidate = 3
    /\ inflight = 1
    /\ requests = NumCandidates + 3

-----------------------------------------------------------------------------
(* The JWT strategy: client id, scopes, failures *)

\* The claim `f` of payload `p` is present: it is neither missing nor null.
Present(p, f) == f \in DOMAIN p /\ p[f].type \notin {"undefined", "null"}

ClaimOrder == <<"client_id", "azp", "cid", "sub">>

\* The first claim of ClaimOrder that is present in `p`.
FirstPresent(p) ==
    ClaimOrder[CHOOSE i \in 1..Len(ClaimOrder) :
                  /\ Present(p, ClaimOrder[i])
                  /\ \A j \in 1..(i - 1) : ~Present(p, ClaimOrder[j])]

ClientIdExtracted == invocation.fn = "extractClientId" /\ invocation.returned

\* C26: the client id of a verified JWT is the first present one of the
\* claims client_id, azp, cid, sub, in that order, and it is "unknown-client"
\* when none of the four is a string.
C26_ClientIdFromFirstPresentClaim ==
    ClientIdExtracted =>
        LET p == invocation.payload
        IN  /\ ((\E f \in ClientIdClaims : Present(p, f)) /\ p[FirstPresent(p)].type = "string")
                  => invocation.result = p[FirstPresent(p)].string
            /\ (\A f \in ClientIdClaims : ~(f \in DOMAIN p /\ p[f].type = "string"))
                  => invocation.result = "unknown-client"

\* client_id is missing, azp is null, and cid comes before sub.
C26_Witness ==
    /\ ClientIdExtracted
    /\ invocation.payload = [azp |-> JsNull, cid |-> JsString("cid-1"), sub |-> JsString("user-1")]
    /\ invocation.result = "cid-1"

\* No claim is a string.
C26_WitnessUnknown ==
    /\ ClientIdExtracted
    /\ invocation.payload = [cid |-> JsNumber(7), sub |-> JsNull]
    /\ invocation.result = "unknown-client"

\* The first present claim is not a string while a later one is: the later
\* one is not used.
C26_FirstPresentNotAString ==
    /\ ClientIdExtracted
    /\ invocation.payload = [client_id |-> JsNumber(7), azp |-> JsString("app")]
    /\ invocation.result = "unknown-client"

\* The claim extractScopes reads: scope when it is present, else scp.
ScopeClaimOf(p) == IF Present(p, "scope") THEN p.scope ELSE Field(p, "scp")

\* The non-empty space-separated parts of the scope strings of the model.
NonEmptyParts(string) ==
    CASE string = "" -> <<>>
      [] string = "mcp:tools" -> <<"mcp:tools">>
      [] string = "mcp:tools read" -> <<"mcp:tools", "read">>
      [] string = "read  write" -> <<"read", "write">>

\* The entries of a list that are strings, in their order.
RECURSIVE StringEntries(_)
StringEntries(items) ==
    IF items = <<>> THEN <<>>
    ELSE IF Head(items).type = "string"
    THEN <<Head(items).string>> \o StringEntries(Tail(items))
    ELSE StringEntries(Tail(items))

ScopesExtracted == invocation.fn = "extractScopes" /\ invocation.returned

\* C27: the scopes of a verified JWT come from the claim scope, else scp: a
\* string gives its non-empty space-separated parts in order, a list gives
\* its string entries in order, and any other or no claim gives the empty
\* list.
C27_ScopesFromScopeOrScp ==
    ScopesExtracted =>
        LET claim == ScopeClaimOf(invocation.payload)
        IN  invocation.result =
                IF claim.type = "string" THEN NonEmptyParts(claim.string)
                ELSE IF claim.type = "array" THEN StringEntries(claim.items)
                ELSE <<>>

\* scope is null and scp is a string with two spaces in a row.
C27_Witness ==
    /\ ScopesExtracted
    /\ invocation.payload = [scope |-> JsNull, scp |-> JsString("read  write")]
    /\ invocation.result = <<"read", "write">>

\* scope is a list with an entry that is no string.
C27_WitnessList ==
    /\ ScopesExtracted
    /\ invocation.payload = [scope |-> JsArray(<<JsString("read"), JsNumber(1), JsString("write")>>),
                             scp |-> JsString("mcp:tools")]
    /\ invocation.result = <<"read", "write">>

\* scope is a number: scp is not consulted.
C27_WitnessOther ==
    /\ ScopesExtracted
    /\ invocation.payload = [scope |-> JsNumber(5), scp |-> JsString("mcp:tools")]
    /\ invocation.result = <<>>

\* The words the JWT strategy looks for in the text of the underlying error,
\* in the order of their priority, each with the message it surfaces.
Classification ==
    << [word |-> "expired", message |-> "Token has expired"],
       [word |-> "audience", message |-> "Token audience does not match"],
       [word |-> "issuer", message |-> "Token issuer does not match"],
       [word |-> "signature", message |-> "Invalid token signature"] >>

\* The text of the underlying error of a rejected JWT verification.
UnderlyingText ==
    IF verification.outcome.error.isError
    THEN verification.outcome.error.message ELSE verification.outcome.error.string

JwtRejected ==
    /\ verification # NoVerification
    /\ verification.strategy = "jwt"
    /\ verification.outcome.kind = "rejected"

\* C28: a failed JWT verification surfaces the message of the first of
\* expired, audience, issuer, signature that the underlying text contains,
\* "Token validation failed" when it contains none, and in no case the
\* underlying text itself.
C28_JwtFailureClassification ==
    JwtRejected =>
        LET hits == { i \in 1..Len(Classification) : includes(UnderlyingText, Classification[i].word) }
            first == CHOOSE i \in hits : \A j \in hits : i <= j
        IN  /\ ~verification.result.ok
            /\ verification.result.error =
                  InvalidTokenError(IF hits = {} THEN "Token validation failed"
                                    ELSE Classification[first].message)
            /\ verification.result.error.message # UnderlyingText

\* The underlying text holds audience, issuer and signature: audience wins.
C28_Witness ==
    /\ JwtRejected
    /\ UnderlyingText = "signature valid but audience and issuer unexpected"
    /\ verification.result.error.message = "Token audience does not match"

\* The underlying text holds all four words: expired wins.
C28_WitnessExpired ==
    /\ JwtRejected
    /\ UnderlyingText = "expired token: audience, issuer and signature not checked"
    /\ verification.result.error.message = "Token has expired"

\* The underlying text holds none of the words.
C28_WitnessGeneric ==
    /\ JwtRejected
    /\ UnderlyingText = "Invalid Compact JWS"
    /\ verification.result.error.message = "Token validation failed"

-----------------------------------------------------------------------------
(* The introspection strategy: the result of an accepted token *)

\* The entries of the scope strings of the model, cut at every space.
Entries(string) ==
    CASE string = "mcp:tools read" -> <<"mcp:tools", "read">>
      [] string = "read  write" -> <<"read", "", "write">>
      [] string = "" -> <<"">>

IntrospectionAccepted ==
    /\ verification # NoVerification
    /\ verification.strategy = "introspection"
    /\ verification.result.ok

\* C29: the result of a successful introspection has the client id of the
\* response when that is a string and the locally configured client id
\* otherwise, the entries of the response's scope string or no scope when
\* scope is missing or no string, the response's exp as expiresAt when it is
\* a number and no expiresAt otherwise, and the presented token as token.
C29_IntrospectionResult ==
    IntrospectionAccepted =>
        LET data == verification.response.data
            result == verification.result.value
        IN  /\ result.token = verification.accessToken
            /\ result.clientId = IF Field(data, "client_id").type = "string"
                                 THEN data.client_id.string ELSE config.MCP_OAUTH_CLIENT_ID
            /\ result.scopes = IF Field(data, "scope").type = "string"
                               THEN Entries(data.scope.string) ELSE <<>>
            /\ IF Field(data, "exp").type = "number"
               THEN "expiresAt" \in DOMAIN result /\ result.expiresAt = data.exp.number
               ELSE "expiresAt" \notin DOMAIN result

\* The response names its client, its scopes and its expiry.
C29_Witness ==
    /\ IntrospectionAccepted
    /\ Field(verification.response.data, "client_id") = JsString("svc")
    /\ verification.result.value.clientId = "svc"
    /\ verification.result.value.scopes = <<"mcp:tools", "read">>
    /\ verification.result.value.expiresAt = 86400

\* The response has a client id that is no string, scopes that are no string
\* and an expiry that is no number.
C29_WitnessFallbacks ==
    /\ IntrospectionAccepted
    /\ Field(verification.response.data, "client_id") = JsNumber(7)
    /\ verification.result.value.clientId = "test-client"
    /\ verification.result.value.scopes = <<>>
    /\ "expiresAt" \notin DOMAIN verification.result.value

\* The response says nothing but that the token is active.
C29_WitnessAbsent ==
    /\ IntrospectionAccepted
    /\ DOMAIN verification.response.data = {"active"}
    /\ verification.result.value.clientId = "test-client"
    /\ verification.result.value.scopes = <<>>

\* An empty scope string gives one empty entry.
C29_EmptyScopeString ==
    /\ IntrospectionAccepted
    /\ Field(verification.response.data, "scope") = JsString("")
    /\ verification.result.value.scopes = <<"">>

-----------------------------------------------------------------------------
(* The userinfo strategy *)

\* The userinfo endpoint has answered a verification with a response body.
UserinfoAnswered ==
    /\ verification # NoVerification
    /\ verification.strategy = "userinfo"
    /\ verification.outcome.kind = "body"

\* C30: in the userinfo strategy a successful userinfo call gives the
\* presented token the response's sub as client id, no scopes and an expiry
\* of the current time in whole seconds plus 3600; neither an audience in the
\* response nor a configured audience is looked at, and the call asks for no
\* subject to be compared.
C30_UserinfoResult ==
    UserinfoAnswered =>
        LET data == verification.outcome.data
            result == verification.result
        IN  /\ result.ok
            /\ result.value.token = verification.accessToken
            /\ Field(data, "sub").type = "string" => result.value.clientId = data.sub
            /\ result.value.scopes = <<>>
            /\ result.value.expiresAt = JsNumber((verification.dateNow \div 1000) + 3600)
            /\ verification.expectedSubject = "skipSubjectCheck"

\* An audience is configured, the response names another one and carries
\* scopes and an expiry of its own, and the clock is in the middle of a second.
C30_Witness ==
    /\ UserinfoAnswered
    /\ config.MCP_OAUTH_AUDIENCE = "mcp"
    /\ Field(verification.outcome.data, "aud") = JsString("other")
    /\ verification.dateNow = 2 * TickMs
    /\ verification.result.value.clientId = JsString("user-1")
    /\ verification.result.value.expiresAt = JsNumber(3601)

\* The response has no sub: the client id is "unknown".
C30_WitnessNoSub ==
    /\ UserinfoAnswered
    /\ Field(verification.outcome.data, "sub") = JsUndefined
    /\ verification.result.value.clientId = JsString("unknown")

\* The attempts of discoverWithRetry: a sleep after each failed attempt but
\* the last.
C24_OidcSleepsBetweenAttempts ==
    /\ pc = "fetching" => sleeps = attempt - 1
    /\ pc = "sleeping" => (sleeps = attempt /\ attempt < config.MCP_OAUTH_DISCOVERY_RETRIES)
    /\ (error # NoError /\ error.message = "Unable to discover OIDC issuer at") =>
          sleeps = IF config.MCP_OAUTH_DISCOVERY_RETRIES >= 1
                   THEN config.MCP_OAUTH_DISCOVERY_RETRIES - 1 ELSE 0

\* discoverWithRetry has given up after more than one attempt.
C24_OidcWitness ==
    /\ error # NoError
    /\ error.message = "Unable to discover OIDC issuer at"
    /\ config.MCP_OAUTH_DISCOVERY_RETRIES >= 2
    /\ sleeps = config.MCP_OAUTH_DISCOVERY_RETRIES - 1

-----------------------------------------------------------------------------
(* The openid-client strategy: failures *)

\* A verification of the openid-client build has been made.
OidcVerified ==
    /\ verification # NoVerification
    /\ verification.strategy \in {"introspection", "userinfo"}
    /\ "expectedSubject" \in DOMAIN verification

\* The text of the error the library call of the verification rejected with.
OidcUnderlyingText ==
    IF verification.outcome.error.isError
    THEN verification.outcome.error.message ELSE verification.outcome.error.string

\* The introspection endpoint answered that the token is not active.
OidcInactive ==
    /\ OidcVerified
    /\ verification.strategy = "introspection"
    /\ verification.outcome.kind = "body"
    /\ Field(verification.outcome.data, "active") \in {JsUndefined, JsBoolean(FALSE)}

\* C31: in the openid-client strategy a failure that is no InvalidTokenError
\* surfaces as InvalidTokenError "Token rejected by authorization server"
\* when its text contains 401 or unauthorized, else as "Invalid or expired
\* token" when it contains invalid_token, else as "Token validation failed";
\* the InvalidTokenError of an inactive token is rethrown as it is.
C31_OidcFailureClassification ==
    /\ (OidcVerified /\ verification.outcome.kind = "rejected") =>
          /\ ~verification.result.ok
          /\ verification.result.error =
                InvalidTokenError(
                    IF includes(OidcUnderlyingText, "401") \/ includes(OidcUnderlyingText, "unauthorized")
                    THEN "Token rejected by authorization server"
                    ELSE IF includes(OidcUnderlyingText, "invalid_token")
                    THEN "Invalid or expired token"
                    ELSE "Token validation failed")
    /\ OidcInactive =>
          /\ ~verification.result.ok
          /\ verification.result.error = InvalidTokenError("Token is not active")

\* The text holds invalid_token as well as 401: the rejection message wins.
C31_Witness ==
    /\ OidcVerified
    /\ verification.outcome.kind = "rejected"
    /\ OidcUnderlyingText = "invalid_token: 401 unauthorized"
    /\ verification.result.error.message = "Token rejected by authorization server"

\* The text holds invalid_token alone.
C31_WitnessInvalidToken ==
    /\ OidcVerified
    /\ verification.outcome.kind = "rejected"
    /\ OidcUnderlyingText = "invalid_token"
    /\ verification.result.error.message = "Invalid or expired token"

\* The text holds none of the words, in the userinfo strategy.
C31_WitnessGeneric ==
    /\ OidcVerified
    /\ verification.strategy = "userinfo"
    /\ verification.outcome.kind = "rejected"
    /\ OidcUnderlyingText = "fetch failed"
    /\ verification.result.error.message = "Token validation failed"

\* An inactive token.
C31_WitnessInactive ==
    /\ OidcInactive
    /\ verification.result.error.message = "Token is not active"

-----------------------------------------------------------------------------
(* OAuth construction: overrides, expected issuer, internal and public URLs *)

\* The introspection endpoint and the JWKS URI as C32 gives them: the
\* override when it is set, else what the discovered document says.
IntrospectionEndpointInUse ==
    IF config.MCP_OAUTH_INTROSPECTION_URL # Undef
    THEN config.MCP_OAUTH_INTROSPECTION_URL
    ELSE Prop(discoveredMetadata, "introspection_endpoint")

JwksUriInUse ==
    IF config.MCP_OAUTH_JWKS_URL # Undef
    THEN config.MCP_OAUTH_JWKS_URL
    ELSE Prop(discoveredMetadata, "jwks_uri")

OAuthContextBuilt == authContext # NoContext /\ authContext.mode = "oauth"

\* C32: the introspection endpoint that decides the validation method and
\* that the verifier posts to is the MCP_OAUTH_INTROSPECTION_URL override
\* when set and the discovered introspection_endpoint otherwise; the JWKS
\* URI is the MCP_OAUTH_JWKS_URL override when set and the discovered
\* jwks_uri otherwise; with an override the capability counts as available
\* whatever the discovered document holds.
C32_OverridesBeforeDiscovered ==
    resolution.called =>
        /\ resolution.hasIntrospectionEndpoint = (IntrospectionEndpointInUse \notin {Undef, ""})
        /\ resolution.hasJwksUri = (JwksUriInUse \notin {Undef, ""})
        /\ config.MCP_OAUTH_INTROSPECTION_URL # Undef => resolution.hasIntrospectionEndpoint
        /\ config.MCP_OAUTH_JWKS_URL # Undef => resolution.hasJwksUri
        /\ (OAuthContextBuilt /\ authContext.middleware.kind = "introspection") =>
              authContext.middleware.introspectionEndpoint = IntrospectionEndpointInUse
        /\ (OAuthContextBuilt /\ authContext.middleware.kind = "jwt") =>
              authContext.middleware.jwksUrl = newURL(JwksUriInUse).value

\* The JWKS override is set, the document has another jwks_uri, and the
\* JWT verifier reads the keys at the override.
C32_Witness ==
    /\ OAuthContextBuilt
    /\ authContext.middleware.kind = "jwt"
    /\ config.MCP_OAUTH_JWKS_URL = "https://auth.example.com/certs"
    /\ Prop(discoveredMetadata, "jwks_uri") = "http://keycloak:8080/realms/test/protocol/openid-connect/certs"
    /\ authContext.middleware.jwksUrl = newURL("https://auth.example.com/certs").value

\* The introspection override is set, the document names no introspection
\* endpoint, and the introspection verifier posts to the override.
C32_WitnessIntrospection ==
    /\ OAuthContextBuilt
    /\ authContext.middleware.kind = "introspection"
    /\ config.MCP_OAUTH_INTROSPECTION_URL = "https://auth.example.com/introspect"
    /\ "introspection_endpoint" \notin DOMAIN discoveredMetadata
    /\ authContext.middleware.introspectionEndpoint = "https://auth.example.com/introspect"

\* The JWKS override is set and the document has no jwks_uri at all.
C32_WitnessJwksOnlyByOverride ==
    /\ OAuthContextBuilt
    /\ authContext.middleware.kind = "jwt"
    /\ config.MCP_OAUTH_JWKS_URL = "https://auth.example.com/certs"
    /\ "jwks_uri" \notin DOMAIN discoveredMetadata

JwtContextBuilt == OAuthContextBuilt /\ authContext.middleware.kind = "jwt"

ExpectedIssuerUnset == config.MCP_OAUTH_EXPECTED_ISSUER = Undef

\* C33: when MCP_OAUTH_EXPECTED_ISSUER is not set, the issuer the JWT
\* verifier expects is the internal issuer URL.
C33_ExpectedIssuerDefaultsToInternal ==
    (JwtContextBuilt /\ ExpectedIssuerUnset) =>
        authContext.middleware.expectedIssuer = config.MCP_OAUTH_INTERNAL_ISSUER_URL

\* C33, where the discovered document names no issuer or names the internal
\* issuer URL: the claim holds.
C33_HoldsWhenDocumentAgrees ==
    (/\ JwtContextBuilt
     /\ ExpectedIssuerUnset
     /\ Prop(discoveredMetadata, "issuer") \in {Undef, config.MCP_OAUTH_INTERNAL_ISSUER_URL}) =>
        authContext.middleware.expectedIssuer = config.MCP_OAUTH_INTERNAL_ISSUER_URL

\* The document names no issuer and the internal issuer URL is expected.
C33_WitnessNoDiscoveredIssuer ==
    /\ JwtContextBuilt
    /\ ExpectedIssuerUnset
    /\ "issuer" \notin DOMAIN discoveredMetadata
    /\ authContext.middleware.expectedIssuer = "http://keycloak:8080/realms/test"

\* The document names another issuer than the internal issuer URL, and that
\* one is expected.
C33_DiscoveredIssuerExpected ==
    /\ JwtContextBuilt
    /\ ExpectedIssuerUnset
    /\ config.MCP_OAUTH_INTERNAL_ISSUER_URL = "http://keycloak:8080/realms/test"
    /\ authContext.middleware.expectedIssuer = "https://auth.example.com/realms/test"

\* The expected issuer is set and is what the verifier expects.
C33_OverrideExpected ==
    /\ JwtContextBuilt
    /\ config.MCP_OAUTH_EXPECTED_ISSUER = "https://issuer.example.com/realms/test"
    /\ authContext.middleware.expectedIssuer = "https://issuer.example.com/realms/test"

-----------------------------------------------------------------------------
(* Routes and the auth middleware *)

\* The routes that serve MCP traffic.
McpRoutes ==
    { [method |-> "GET", path |-> "/sse"], [method |-> "ALL", path |-> "/"],
      [method |-> "ALL", path |-> "/mcp"], [method |-> "POST", path |-> "/messages"] }

Registered(r, protected) == Route(r.method, r.path, protected) \in routes

HasMiddleware == authContext.middleware # NullMiddleware

HandlerRan == res # NoResponse

TokenAccepted == verification.called /\ verification.result.ok

\* C34: once the routes are registered, a context with a middleware (bearer
\* or oauth) has every MCP-serving route behind it and none without it, and
\* a handler has run only for a request whose token the verifier accepted;
\* only a context of mode none has the routes registered without middleware.
C34_McpRoutesBehindMiddleware ==
    pc = "serving" =>
        /\ HasMiddleware <=> authContext.mode \in {"bearer", "oauth"}
        /\ ~HasMiddleware <=> authContext.mode = "none"
        /\ \A r \in McpRoutes : Registered(r, HasMiddleware) /\ ~Registered(r, ~HasMiddleware)
        /\ (HasMiddleware /\ HandlerRan) => TokenAccepted

\* A handler ran behind the bearer middleware, for an accepted token.
C34_Witness ==
    /\ authContext # NoContext
    /\ authContext.mode = "bearer"
    /\ HandlerRan
    /\ res.handler = "handleMessages"
    /\ TokenAccepted

\* A handler ran behind the OAuth middleware, for an accepted token.
C34_WitnessOAuth ==
    /\ authContext # NoContext
    /\ authContext.mode = "oauth"
    /\ HandlerRan
    /\ TokenAccepted

\* The verifier rejected the token and no handler ran.
C34_WitnessRejected ==
    /\ pc = "serving"
    /\ HasMiddleware
    /\ verification.called
    /\ ~verification.result.ok
    /\ ~HandlerRan

\* In mode none a handler ran with no verification at all.
C34_WitnessNone ==
    /\ authContext # NoContext
    /\ authContext.mode = "none"
    /\ HandlerRan
    /\ ~verification.called

-----------------------------------------------------------------------------
(* An unknown resolved mode *)

\* buildAuthContext has run with a mode that is none of none, bearer, oauth.
UnknownModeResolved ==
    /\ useSse
    /\ pc # "main"
    /\ resolvedMode \notin {"none", "bearer", "oauth"}

NoneContext == [mode |-> "none", middleware |-> NullMiddleware]

StartsUnauthenticated ==
    /\ error = NoError
    /\ exitCode = NotExited
    /\ authContext = NoneContext
    /\ pc = "serving" => \A r \in McpRoutes : Registered(r, FALSE)

\* C35: buildAuthContext with a resolved mode that is none of none, bearer,
\* oauth does not fail; it returns a context of mode none with a null
\* middleware, and the server registers every route without authentication.
C35_UnknownModeStartsUnauthenticated ==
    UnknownModeResolved => StartsUnauthenticated

\* C35, where MCP_PUBLIC_URL is not set to the empty string: the claim holds.
C35_HoldsWhenPublicUrlParses ==
    (UnknownModeResolved /\ envPublicUrl # "") => StartsUnauthenticated

\* MCP_AUTH_MODE=basic, no flag: the server is serving, unauthenticated.
C35_WitnessServing ==
    /\ UnknownModeResolved
    /\ resolvedMode = "basic"
    /\ pc = "serving"
    /\ listening
    /\ authContext = NoneContext

\* MCP_AUTH_MODE=basic, no flag, MCP_PUBLIC_URL empty: construction failed.
C35_UnknownModeFails ==
    /\ UnknownModeResolved
    /\ resolvedMode = "basic"
    /\ envPublicUrl = ""
    /\ authContext = NoContext
    /\ error # NoError
    /\ pc = "exited"

-----------------------------------------------------------------------------
(* Public issuer: what the server uses and what it publishes *)

Published == authContext.oauthMetadata

\* The values of the published metadata that rewriting changed.
RewrittenValues ==
    { Published[f] : f \in { g \in DOMAIN Published : Published[g] # Prop(discoveredMetadata, g) } }

\* The sources the expected issuer may come from, in the order of the code.
ExpectedIssuerInUse ==
    IF config.MCP_OAUTH_EXPECTED_ISSUER # Undef THEN config.MCP_OAUTH_EXPECTED_ISSUER
    ELSE IF Prop(discoveredMetadata, "issuer") # Undef THEN discoveredMetadata.issuer
    ELSE config.MCP_OAUTH_INTERNAL_ISSUER_URL

\* C36: with a public issuer set, the introspection endpoint, the JWKS URI
\* and the expected issuer the verifier uses come from the explicit settings
\* or from the document as it was discovered, and without an explicit
\* setting none of them is a value that rewriting produced; the rewritten
\* values are in the published oauthMetadata only.
C36_VerifierUsesUnrewrittenMetadata ==
    (OAuthContextBuilt /\ PublicIssuerSet) =>
        /\ Published = rewriteOAuthMetadataIssuer(discoveredMetadata, config.MCP_OAUTH_PUBLIC_ISSUER_URL)
        /\ authContext.middleware.kind = "introspection" =>
              /\ authContext.middleware.introspectionEndpoint = IntrospectionEndpointInUse
              /\ config.MCP_OAUTH_INTROSPECTION_URL = Undef =>
                    authContext.middleware.introspectionEndpoint \notin RewrittenValues
        /\ authContext.middleware.kind = "jwt" =>
              /\ authContext.middleware.jwksUrl = newURL(JwksUriInUse).value
              /\ config.MCP_OAUTH_JWKS_URL = Undef => href(authContext.middleware.jwksUrl) \notin RewrittenValues
              /\ authContext.middleware.expectedIssuer = ExpectedIssuerInUse
              /\ config.MCP_OAUTH_EXPECTED_ISSUER = Undef =>
                    authContext.middleware.expectedIssuer \notin RewrittenValues

\* The published introspection endpoint is the rewritten one, the verifier
\* posts to the discovered one.
C36_Witness ==
    /\ OAuthContextBuilt
    /\ PublicIssuerSet
    /\ authContext.middleware.kind = "introspection"
    /\ config.MCP_OAUTH_INTROSPECTION_URL = Undef
    /\ "introspection_endpoint" \in DOMAIN discoveredMetadata
    /\ Published.introspection_endpoint \in RewrittenValues
    /\ authContext.middleware.introspectionEndpoint = discoveredMetadata.introspection_endpoint

\* The published issuer and jwks_uri are rewritten, the JWT verifier uses the
\* discovered ones.
C36_WitnessJwt ==
    /\ OAuthContextBuilt
    /\ PublicIssuerSet
    /\ authContext.middleware.kind = "jwt"
    /\ config.MCP_OAUTH_JWKS_URL = Undef
    /\ config.MCP_OAUTH_EXPECTED_ISSUER = Undef
    /\ {"issuer", "jwks_uri"} \subseteq DOMAIN discoveredMetadata
    /\ Published.issuer \in RewrittenValues
    /\ Published.jwks_uri \in RewrittenValues
    /\ authContext.middleware.expectedIssuer = discoveredMetadata.issuer
    /\ href(authContext.middleware.jwksUrl) = discoveredMetadata.jwks_uri

\* The document names no issuer: the verifier expects the internal issuer
\* URL while the published issuer is the public one.
C36_WitnessInternalIssuer ==
    /\ OAuthContextBuilt
    /\ PublicIssuerSet
    /\ authContext.middleware.kind = "jwt"
    /\ "issuer" \notin DOMAIN discoveredMetadata
    /\ authContext.middleware.expectedIssuer = config.MCP_OAUTH_INTERNAL_ISSUER_URL
    /\ Published.issuer \in RewrittenValues

-----------------------------------------------------------------------------
(* Discovery: a 2xx response whose body is not JSON *)

Last(s) == s[Len(s)]

CandidateUrl == buildWellKnownCandidates(Issuer)[candidate]

UnparseableEntry == [url |-> CandidateUrl, reason |-> UnparseableBody]

\* The pending discovery request is answered 2xx with a body that is not JSON.
UnparseableBodyArrives ==
    /\ pc = "fetching"
    /\ \/ attempts' = Append(attempts, UnparseableEntry)
       \/ /\ pc' = "rejected"
          /\ "tried" \in DOMAIN error'
          /\ error'.tried # <<>>
          /\ Last(error'.tried).reason = UnparseableBody

LastRequestOfDiscovery ==
    candidate = NumCandidates /\ attempt = config.MCP_OAUTH_DISCOVERY_RETRIES

\* Discovery goes on: to the next candidate of the round, or to the sleep
\* before the next round.
DiscoveryGoesOn ==
    /\ attempts' = Append(attempts, UnparseableEntry)
    /\ error' = NoError
    /\ IF candidate < NumCandidates
       THEN pc' = "fetching" /\ attempt' = attempt /\ candidate' = candidate + 1 /\ requests' = requests + 1
       ELSE pc' = "sleeping" /\ attempt' = attempt /\ requests' = requests

\* C37: a candidate that answers 2xx with a body that is not JSON is logged
\* as a failed attempt for its URL and discovery goes on with the next
\* candidate or the next round; the response neither ends discovery nor
\* yields a document. Only after the last request of the last round does
\* discovery fail, listing the attempt with all the others.
C37_UnparseableBodyIsAFailedAttempt ==
    [][UnparseableBodyArrives =>
          /\ authContext' = NoContext
          /\ discoveredMetadata' = NoMetadata
          /\ IF LastRequestOfDiscovery
             THEN error' = DiscoveryError(Issuer, Append(attempts, UnparseableEntry))
             ELSE DiscoveryGoesOn]_vars

\* The last candidate of the first round answered with such a body and the
\* second round is under way.
C37_Witness ==
    /\ pc = "fetching"
    /\ attempt = 2
    /\ Len(attempts) >= NumCandidates
    /\ attempts[NumCandidates].reason = UnparseableBody

\* The second candidate answered with such a body and the third is requested.
C37_WitnessNextCandidate ==
    /\ pc = "fetching"
    /\ attempt = 1
    /\ candidate = 3
    /\ attempts[2].reason = UnparseableBody

\* Every request of every round was answered with such a body: discovery failed.
C37_WitnessAllUnparseable ==
    /\ pc = "rejected"
    /\ error # NoError
    /\ "tried" \in DOMAIN error
    /\ Len(error.tried) = MaxRetries * NumCandidates
    /\ \A i \in 1..Len(error.tried) : error.tried[i].reason = UnparseableBody

-----------------------------------------------------------------------------
(* Discovery: retry counts below one, and termination *)

Max(a, b) == IF a >= b THEN a ELSE b

NoRounds == config.MCP_OAUTH_DISCOVERY_RETRIES <= 0

\* buildOAuthAuthContext has called discoverOAuthMetadata.
DiscoveryCalled ==
    /\ pc # "main"
    /\ useSse
    /\ resolvedMode = "oauth"
    /\ mcpPublicUrlOf(envPublicUrl).ok
    /\ config.MCP_OAUTH_INTERNAL_ISSUER_URL \notin {Undef, ""}
    /\ newURL(config.MCP_OAUTH_INTERNAL_ISSUER_URL).ok

RequestsBounded ==
    /\ requests <= NumCandidates * Max(config.MCP_OAUTH_DISCOVERY_RETRIES, 0)
    /\ sleeps <= Max(config.MCP_OAUTH_DISCOVERY_RETRIES - 1, 0)
    /\ (DiscoveryCalled /\ NoRounds) =>
          /\ requests = 0
          /\ sleeps = 0
          /\ inflight = 0
          /\ authContext = NoContext
          /\ pc \in {"rejected", "exited"}
          /\ error = DiscoveryError(Issuer, <<>>)

\* C38: with a retry count of zero or less discovery sends no request, does
\* not sleep and fails at once with the error that lists no URL; for every
\* retry count N the requests number at most 4 * max(N, 0); and, every
\* request being answered and every sleep ending, discovery comes to an end.
C38_DiscoveryBoundedAndTerminates ==
    /\ []RequestsBounded
    /\ Discovering ~> ~Discovering

\* Retry count 0: discovery failed with no request and no URL listed.
C38_Witness ==
    /\ config.MCP_OAUTH_DISCOVERY_RETRIES = 0
    /\ DiscoveryCalled
    /\ requests = 0
    /\ error.message = "Unable to load OAuth metadata from issuer"
    /\ error.tried = <<>>
    /\ pc = "exited"

\* Retry count -1: the same.
C38_WitnessNegative ==
    /\ config.MCP_OAUTH_DISCOVERY_RETRIES = -1
    /\ DiscoveryCalled
    /\ requests = 0
    /\ error.tried = <<>>

\* The bound is met: every request of every round was sent.
C38_WitnessBoundMet ==
    /\ config.MCP_OAUTH_DISCOVERY_RETRIES = MaxRetries
    /\ requests = NumCandidates * MaxRetries
    /\ ~Discovering

-----------------------------------------------------------------------------
(* The JWT strategy: a first present claim that is not a string *)

SomeClaimPresent(p) == \E f \in ClientIdClaims : Present(p, f)

LaterStringClaim(p) ==
    \E i, j \in 1..Len(ClaimOrder) :
        /\ ClaimOrder[i] = FirstPresent(p)
        /\ i < j
        /\ ClaimOrder[j] \in DOMAIN p
        /\ p[ClaimOrder[j]].type = "string"

\* C39: extractClientId stops at the first of client_id, azp, cid, sub that
\* is neither null nor undefined; when that claim is not a string the result
\* is "unknown-client", whatever the later claims hold.
C39_StopsAtFirstPresentClaim ==
    (ClientIdExtracted /\ SomeClaimPresent(invocation.payload)) =>
        LET p == invocation.payload
            first == p[FirstPresent(p)]
        IN  invocation.result = IF first.type = "string" THEN first.string ELSE "unknown-client"

\* client_id is null, azp is a number, and cid and sub are strings: the
\* result is "unknown-client".
C39_Witness ==
    /\ ClientIdExtracted
    /\ invocation.payload = [client_id |-> JsNull, azp |-> JsNumber(7), cid |-> JsString("cid-1"),
                             sub |-> JsString("user-1")]
    /\ FirstPresent(invocation.payload) = "azp"
    /\ LaterStringClaim(invocation.payload)
    /\ invocation.result = "unknown-client"

\* Only sub is present and it is a number.
C39_WitnessLastClaim ==
    /\ ClientIdExtracted
    /\ invocation.payload = [sub |-> JsNumber(7)]
    /\ ~LaterStringClaim(invocation.payload)
    /\ invocation.result = "unknown-client"

-----------------------------------------------------------------------------
(* The legacy SSE transport slot *)

MessagePosted == res.handler = "handleMessages"

\* The SSE transport opened last, NoTransport before the first.
MostRecentTransport == Len(transports)

C40_WitnessNotInitialized ==
    /\ transports = <<>>
    /\ MessagePosted
    /\ res.status = "500 Transport not initialized"

\* The same behind the bearer middleware.
C40_WitnessBearer ==
    /\ authContext # NoContext
    /\ authContext.mode = "bearer"
    /\ transports = <<"first", "second">>
    /\ MessagePosted
    /\ res.client = "first"
    /\ transports[res.transport] = "second"

====
